---- MODULE Spec2Model ----
(***************************************************************************)
(* Model of the post-build injection pipeline of the Android re-hoster:    *)
(* module classification (aosp_module_type.py), the per-file worker        *)
(* process_file_concurrently with its lock + marker protocol, the          *)
(* direct / indirect / fallback injection strategy and the partition       *)
(* orchestrator (aosp_post_build_injector.py).                             *)
(*                                                                         *)
(* Text is modelled as sequences of tokens: a file name is a sequence of   *)
(* tokens whose last token may be an extension ("lib","foo",".so"), a path *)
(* is a sequence of names.  Python's substring test `kw in name` is the    *)
(* occurrence of the token kw in the name, str.replace(kw, "") removes the *)
(* token, str.endswith tests the last token.                               *)
(***************************************************************************)
EXTENDS Integers, Sequences, FiniteSets, TLC

VARIABLES
    POST_INJECTOR_CONFIG,  \* the module global of aosp_module_type.py (line 4) in the
                  \* process that calls get_module_type directly
    cfgOn,        \* the loaded rule set: the set of options that are switched on
    fs,           \* the file system: existing path -> content
    held,         \* the calls that hold the advisory lock of their file
    tasks,        \* the calls of process_file_concurrently, in order of creation
    orch,         \* the locals of process_partitions / process_partition_files
    clPath,       \* classifier harness: path handed to get_module_type
    clOut         \* classifier harness: the (module_type, tmp_module_type) returned

\* ---------------------------------------------------------------------------
\* Bounds
\* ---------------------------------------------------------------------------
MaxRules == 3     \* at most this many options of the rule set are switched on
MaxFiles == 2     \* at most this many files lie in the source folder at the start
NumWorkers == 2   \* processes of the executor
NumCallers == 2   \* concurrent direct callers of process_file_concurrently
MaxRuns == 2      \* calls of process_partitions in a row

\* ---------------------------------------------------------------------------
\* Text helpers (os.path and str operations on token sequences)
\* ---------------------------------------------------------------------------
ExtTokens ==
    {".so", ".apk", ".apex", ".capex", ".jar", ".xml", ".conf", ".dat",
     ".fmd-aecs-lock", ".fmd-aecs-processed", ".original_apex", ".original_capex"}

Last(s) == s[Len(s)]
Front(s) == SubSeq(s, 1, Len(s) - 1)

basename(path) == Last(path)
dirname(path) == Front(path)

\* os.path.splitext: <<root, ext>>
splitext(name) ==
    IF Len(name) > 1 /\ Last(name) \in ExtTokens
    THEN <<Front(name), Last(name)>>
    ELSE <<name, "">>

\* `kw in name`
Contains(name, kw) == \E i \in DOMAIN name : name[i] = kw
\* `kw in path`
PathContains(path, kw) == \E i \in DOMAIN path : Contains(path[i], kw)
\* name.replace(kw, "")
Remove(name, kw) == SelectSeq(name, LAMBDA t : t # kw)
\* `"/etc/" in path`: a directory component named etc
HasEtcSegment(path) == \E i \in 1..(Len(path) - 1) : path[i] = <<"etc">>

\* ---------------------------------------------------------------------------
\* The source tree: the artifacts that may lie under ALL_FILES/<partition>/
\* kind is what the first bytes of the file say: elf32, elf64, data, or
\* unreadable (open() fails)
\* ---------------------------------------------------------------------------
AF == <<"ALL_FILES">>
OUT == <<"out">>
Build == <<<<"build">>>>
None == <<>>
SYS == <<"system">>
VEN == <<"vendor">>

N_so == <<"lib", "foo", ".so">>
N_so32 == <<"lib", "bar", ".so">>
N_apk == <<"foo", ".apk">>
N_apex == <<"com.android.", "foo", "_compressed", ".apex">>
N_capex == <<"com.android.", "tzdata", ".capex">>
N_bin == <<"foo">>
N_jar == <<"foo", ".jar">>
N_xml == <<"foo", ".xml">>
N_conf == <<"foo", ".conf">>
N_dat == <<"foo", ".dat">>
N_raw == <<"bar">>

Catalogue ==
    << [path |-> <<AF, SYS, <<"lib", "64">>, N_so>>,        kind |-> "elf64"],
       [path |-> <<AF, SYS, <<"lib">>, N_so32>>,            kind |-> "elf32"],
       [path |-> <<AF, SYS, <<"app">>, N_apk>>,             kind |-> "data"],
       [path |-> <<AF, SYS, <<"apex">>, N_apex>>,           kind |-> "data"],
       [path |-> <<AF, SYS, <<"apex">>, N_capex>>,          kind |-> "data"],
       [path |-> <<AF, SYS, <<"bin">>, N_bin>>,             kind |-> "elf64"],
       [path |-> <<AF, SYS, <<"framework">>, N_jar>>,       kind |-> "data"],
       [path |-> <<AF, SYS, <<"usr">>, N_xml>>,             kind |-> "data"],
       [path |-> <<AF, VEN, <<"etc">>, N_conf>>,            kind |-> "data"],
       [path |-> <<AF, VEN, <<"usr">>, N_dat>>,             kind |-> "data"],
       [path |-> <<AF, VEN, <<"usr">>, N_raw>>,             kind |-> "unreadable"] >>

Artifacts == DOMAIN Catalogue
SrcPath(a) == Catalogue[a].path
BaseNames == {basename(SrcPath(a)) : a \in Artifacts}

\* common.is_elf_binary: the magic bytes; an open() error gives False
is_elf_binary(kind) == kind \in {"elf32", "elf64"}

\* ---------------------------------------------------------------------------
\* The rule set (POST_INJECTOR_CONFIG and the pre-injector package list).
\* Every option is either at its neutral value (empty list, False) or switched
\* on with a value that matches artifacts of the catalogue.
\* ---------------------------------------------------------------------------
InjectorOptions ==
    {"USE_ISOLATED_NAMESPACE", "ISOLATED_NAMESPACE_NATIVE_LIBRARY_LIST",
     "SKIPPED_FILE_EXTENSION_LIST_INDIRECT_INJECTION", "INDIRECT_INJECTION_FILE_MAPPING",
     "ALLOW_APEX_INJECTION_MERGE", "ALLOW_APEX_MERGE_KEYWORD_LIST",
     "APEX_BINARY_ISOLATED_NAMESPACE_LIST", "DIRECT_INJECTION_TARGET_PATH_OVERWRITE"}

ClassifierOptions ==
    {"SKIPPED_APP_KEYWORDLIST", "SKIPPED_APP_LIST", "ALLOWED_APP_INJECTION_KEYWORD",
     "DISABLE_BINARY_INJECTION", "SKIPPED_KEYWORD_LIST", "ALLOW_ONLY_EXTENSION_LIST",
     "SKIPPED_FILE_EXTENSION_LIST_GENERAL", "SKIPPED_BINARY_LIST",
     "SKIPPED_FILE_ENDING_LIST", "PRE_INJECTOR_PACKAGE_LIST",
     "ENABLE_SHARED_LIBRARIES_INJECTION_IF_NOT_EXISTS",
     "SKIPPED_SHARED_LIBRARIES_EVEN_IF_NOT_EXISTS_LIST",
     "SKIPPED_KEYWORD_SHARED_LIBRARIES_EVEN_IF_NOT_EXISTS_LIST",
     "SKIPPED_APEX_KEYWORD_LIST",
     "ENABLE_ALLOW_APEX_INJECT_ALWAYS_KEYWORD_NOT_IN_LIST",
     "ALLOW_APEX_INJECT_ALWAYS_KEYWORD_NOT_IN_LIST",
     "ALLOW_APEX_INJECT_ALWAYS_KEYWORD_LIST", "DISALLOW_APP_INJECTION",
     "DISABLE_JAVA_LIBRARIES_INJECTION", "ALLOW_ALL_JAVA_LIBRARIES_INJECTION",
     "DISABLE_MISC_INJECTION", "ALLOW_APP_INJECT_ALWAYS",
     "ALLOW_APP_INJECT_ALWAYS_KEYWORD_LIST", "ALLOW_FILE_INJECT_ALWAYS",
     "ALLOW_FILE_INJECT_ALWAYS_KEYWORD_LIST"}

KwList(on, opt) == IF opt \in on THEN {"foo"} ELSE {}
NameList(on, opt) == IF opt \in on THEN BaseNames ELSE {}

Config(on) ==
    [SKIPPED_APP_KEYWORDLIST |-> KwList(on, "SKIPPED_APP_KEYWORDLIST"),
     SKIPPED_APP_LIST |-> NameList(on, "SKIPPED_APP_LIST"),
     ALLOWED_APP_INJECTION_KEYWORD |-> KwList(on, "ALLOWED_APP_INJECTION_KEYWORD"),
     DISABLE_BINARY_INJECTION |-> "DISABLE_BINARY_INJECTION" \in on,
     SKIPPED_KEYWORD_LIST |-> KwList(on, "SKIPPED_KEYWORD_LIST"),
     ALLOW_ONLY_EXTENSION_LIST |->
         IF "ALLOW_ONLY_EXTENSION_LIST" \in on THEN {".jar", ".so"} ELSE {},
     SKIPPED_FILE_EXTENSION_LIST_GENERAL |->
         IF "SKIPPED_FILE_EXTENSION_LIST_GENERAL" \in on THEN {".so", ".apex", ".dat"} ELSE {},
     SKIPPED_BINARY_LIST |-> NameList(on, "SKIPPED_BINARY_LIST"),
     SKIPPED_FILE_ENDING_LIST |->
         IF "SKIPPED_FILE_ENDING_LIST" \in on THEN {".xml", ".apk"} ELSE {},
     ENABLE_SHARED_LIBRARIES_INJECTION_IF_NOT_EXISTS |->
         "ENABLE_SHARED_LIBRARIES_INJECTION_IF_NOT_EXISTS" \in on,
     SKIPPED_SHARED_LIBRARIES_EVEN_IF_NOT_EXISTS_LIST |->
         NameList(on, "SKIPPED_SHARED_LIBRARIES_EVEN_IF_NOT_EXISTS_LIST"),
     SKIPPED_KEYWORD_SHARED_LIBRARIES_EVEN_IF_NOT_EXISTS_LIST |->
         KwList(on, "SKIPPED_KEYWORD_SHARED_LIBRARIES_EVEN_IF_NOT_EXISTS_LIST"),
     SKIPPED_APEX_KEYWORD_LIST |-> KwList(on, "SKIPPED_APEX_KEYWORD_LIST"),
     ENABLE_ALLOW_APEX_INJECT_ALWAYS_KEYWORD_NOT_IN_LIST |->
         "ENABLE_ALLOW_APEX_INJECT_ALWAYS_KEYWORD_NOT_IN_LIST" \in on,
     ALLOW_APEX_INJECT_ALWAYS_KEYWORD_NOT_IN_LIST |->
         KwList(on, "ALLOW_APEX_INJECT_ALWAYS_KEYWORD_NOT_IN_LIST"),
     ALLOW_APEX_INJECT_ALWAYS_KEYWORD_LIST |->
         KwList(on, "ALLOW_APEX_INJECT_ALWAYS_KEYWORD_LIST"),
     DISALLOW_APP_INJECTION |-> "DISALLOW_APP_INJECTION" \in on,
     DISABLE_JAVA_LIBRARIES_INJECTION |-> "DISABLE_JAVA_LIBRARIES_INJECTION" \in on,
     ALLOW_ALL_JAVA_LIBRARIES_INJECTION |-> "ALLOW_ALL_JAVA_LIBRARIES_INJECTION" \in on,
     DISABLE_MISC_INJECTION |-> "DISABLE_MISC_INJECTION" \in on,
     ALLOW_APP_INJECT_ALWAYS |-> NameList(on, "ALLOW_APP_INJECT_ALWAYS"),
     ALLOW_APP_INJECT_ALWAYS_KEYWORD_LIST |->
         KwList(on, "ALLOW_APP_INJECT_ALWAYS_KEYWORD_LIST"),
     ALLOW_FILE_INJECT_ALWAYS |-> NameList(on, "ALLOW_FILE_INJECT_ALWAYS"),
     ALLOW_FILE_INJECT_ALWAYS_KEYWORD_LIST |->
         KwList(on, "ALLOW_FILE_INJECT_ALWAYS_KEYWORD_LIST"),
     USE_ISOLATED_NAMESPACE |-> "USE_ISOLATED_NAMESPACE" \in on,
     ISOLATED_NAMESPACE_NATIVE_LIBRARY_LIST |->
         NameList(on, "ISOLATED_NAMESPACE_NATIVE_LIBRARY_LIST"),
     SKIPPED_FILE_EXTENSION_LIST_INDIRECT_INJECTION |->
         IF "SKIPPED_FILE_EXTENSION_LIST_INDIRECT_INJECTION" \in on
         THEN {".xml", ".jar", ".apk"} ELSE {},
     INDIRECT_INJECTION_FILE_MAPPING |->
         IF "INDIRECT_INJECTION_FILE_MAPPING" \in on THEN {N_conf, N_jar} ELSE {},
     ALLOW_APEX_INJECTION_MERGE |-> "ALLOW_APEX_INJECTION_MERGE" \in on,
     ALLOW_APEX_MERGE_KEYWORD_LIST |-> KwList(on, "ALLOW_APEX_MERGE_KEYWORD_LIST"),
     APEX_BINARY_ISOLATED_NAMESPACE_LIST |->
         NameList(on, "APEX_BINARY_ISOLATED_NAMESPACE_LIST"),
     DIRECT_INJECTION_TARGET_PATH_OVERWRITE |->
         IF "DIRECT_INJECTION_TARGET_PATH_OVERWRITE" \in on THEN {N_dat} ELSE {}]

\* the values of the two filename -> path tables of the rule set
IndirectMappingPath(file_name) == <<OUT, <<"system">>, <<"mapped">>, file_name>>
DirectOverwritePath(file_name) == <<OUT, <<"system">>, <<"overwrite">>, file_name>>

\* the package list the pre-injector hands over (names carry its markers)
PackageList(on) ==
    IF "PRE_INJECTOR_PACKAGE_LIST" \in on
    THEN {<<"lib", "foo", ".so", "fmd">>, <<"FMD_APEX", "foo">>,
          <<"com.android.", "foo", "_compressed">>, <<"foo", ".conf">>}
    ELSE {}

RECURSIVE SubsetsUpTo(_, _)
SubsetsUpTo(S, k) ==
    IF k = 0 THEN {{}}
    ELSE LET smaller == SubsetsUpTo(S, k - 1)
         IN  smaller \cup {s \cup {x} : s \in smaller, x \in S}

\* ---------------------------------------------------------------------------
\* aosp_module_type.py
\* ---------------------------------------------------------------------------
is_file_inject_allowed(cfg, file_name) ==
    /\ file_name \notin cfg.SKIPPED_BINARY_LIST
    /\ \A file_ending \in cfg.SKIPPED_FILE_ENDING_LIST : Last(file_name) # file_ending

is_file_extension_allowed(cfg, file_extension) ==
    /\ ~(cfg.ALLOW_ONLY_EXTENSION_LIST # {}
         /\ file_extension \notin cfg.ALLOW_ONLY_EXTENSION_LIST)
    /\ file_extension \notin cfg.SKIPPED_FILE_EXTENSION_LIST_GENERAL

\* is_file_path_allowed without the keyword list
is_file_path_allowed_any(cfg, file_path) == TRUE

is_file_path_allowed(cfg, file_path) ==
    ~\E keyword \in cfg.SKIPPED_KEYWORD_LIST : PathContains(file_path, keyword)

\* pre_injector_package_list left at its default None (line 63): a value that
\* is no list of package names
NoList == {None}

\* package_name.replace("FMD_APEX", "").replace("fmd", "").strip()
StrippedPackageName(package_name) == Remove(Remove(package_name, "FMD_APEX"), "fmd")

\* lines 77-96: the type derived from extension, content and directory,
\* and the file name as the later rules see it
BaseModuleType(source_file_path, kind) ==
    LET parent_dir == dirname(source_file_path)
        file_name == basename(source_file_path)
        file_extension == splitext(file_name)[2]
    IN  IF file_extension = ""
           /\ (is_elf_binary(kind) \/ PathContains(parent_dir, "bin"))
        THEN "EXECUTABLES"
        ELSE IF file_extension = ".jar" THEN "JAVA_LIBRARIES"
        ELSE IF file_extension = ".so" THEN "SHARED_LIBRARIES"
        ELSE IF file_extension = ".apk" THEN "APPS"
        ELSE IF file_extension = ".xml" THEN "STATIC_CONFIG"
        ELSE IF HasEtcSegment(source_file_path) THEN "ETC"
        ELSE IF file_extension \in {".apex", ".capex"} THEN "ETC"
        ELSE "MISC"

\* lines 89-94: only the container branch of the chain rewrites file_name
RuleFileName(source_file_path) ==
    LET file_name == basename(source_file_path)
        file_extension == splitext(file_name)[2]
        reaches_apex_branch ==
            /\ file_extension \in {".apex", ".capex"}
            /\ ~HasEtcSegment(source_file_path)
    IN  IF ~reaches_apex_branch THEN file_name
        ELSE IF Contains(file_name, "_compressed") THEN Remove(file_name, "_compressed")
        ELSE IF Contains(file_name, "_trimmed") THEN Remove(file_name, "_trimmed")
        ELSE file_name

\* the global keeps the rule set of the first call
SetConfig_once(global, post_injector_config) ==
    IF global = None THEN post_injector_config ELSE global

\* lines 67-68: `global POST_INJECTOR_CONFIG; POST_INJECTOR_CONFIG = post_injector_config`
SetConfig(global, post_injector_config) == post_injector_config

\* lines 63-170: returns <<module_type, tmp_module_type>>; cfg is the module
\* global at the time the rules read it
get_module_type(source_file_path, pre_injector_package_list, cfg, kind) ==
    LET file_extension == splitext(basename(source_file_path))[2]
        file_name_no_ext == splitext(basename(source_file_path))[1]
        file_name == RuleFileName(source_file_path)
        is_apex == file_extension \in {".apex", ".capex"}
        \* 100-101
        Rule100(m) == IF m = "APPS"
                         /\ \E keyword \in cfg.SKIPPED_APP_KEYWORDLIST : Contains(file_name, keyword)
                      THEN "SKIPPED" ELSE m
        \* 102-104
        Rule102(m) == IF m = "APPS"
                         /\ (file_name_no_ext \in cfg.SKIPPED_APP_LIST
                             \/ file_name \in cfg.SKIPPED_APP_LIST)
                      THEN "SKIPPED" ELSE m
        \* 105-106
        Rule105(m) == IF m = "APPS"
                         /\ \E keyword \in cfg.ALLOWED_APP_INJECTION_KEYWORD : Contains(file_name, keyword)
                      THEN "APPS" ELSE m
        \* 108-109
        Rule108(m) == IF m \in {"EXECUTABLES", "ETC"} /\ cfg.DISABLE_BINARY_INJECTION
                      THEN "SKIPPED" ELSE m
        \* 111-114
        Rule111(m) == IF \/ ~is_file_path_allowed(cfg, source_file_path)
                         \/ (file_extension # "" /\ ~is_file_extension_allowed(cfg, file_extension))
                         \/ ~is_file_inject_allowed(cfg, file_name)
                      THEN "SKIPPED" ELSE m
        \* 116-122
        Rule116(m) == IF m \in {"SHARED_LIBRARIES", "ETC", "APPS"}
                         /\ \E package_name \in pre_injector_package_list :
                                \/ file_name = StrippedPackageName(package_name)
                                \/ file_name_no_ext = StrippedPackageName(package_name)
                      THEN "SKIPPED" ELSE m
        \* 124-130
        Rule124(m, tmp) ==
            IF cfg.ENABLE_SHARED_LIBRARIES_INJECTION_IF_NOT_EXISTS /\ file_extension = ".so"
            THEN IF \/ file_name \in cfg.SKIPPED_SHARED_LIBRARIES_EVEN_IF_NOT_EXISTS_LIST
                    \/ \E keyword \in cfg.SKIPPED_KEYWORD_SHARED_LIBRARIES_EVEN_IF_NOT_EXISTS_LIST :
                           Contains(file_name, keyword)
                 THEN "SKIPPED" ELSE tmp
            ELSE m
        \* 132-133
        Rule132(m) == IF is_apex
                         /\ \E keyword \in cfg.SKIPPED_APEX_KEYWORD_LIST : Contains(file_name, keyword)
                      THEN "SKIPPED" ELSE m
        \* 135-138
        Rule135(m) == IF /\ cfg.ENABLE_ALLOW_APEX_INJECT_ALWAYS_KEYWORD_NOT_IN_LIST
                         /\ is_apex
                         /\ \A keyword \in cfg.ALLOW_APEX_INJECT_ALWAYS_KEYWORD_NOT_IN_LIST :
                                ~Contains(file_name, keyword)
                      THEN "ETC" ELSE m
        \* 140-142
        Rule140(m) == IF is_apex
                         /\ \E keyword \in cfg.ALLOW_APEX_INJECT_ALWAYS_KEYWORD_LIST :
                                Contains(file_name, keyword)
                      THEN "ETC" ELSE m
        \* 144-146
        Rule144(m) == IF m = "APPS" /\ cfg.DISALLOW_APP_INJECTION THEN "SKIPPED" ELSE m
        \* 148-152
        Rule148(m, tmp) == IF m = "JAVA_LIBRARIES" /\ cfg.DISABLE_JAVA_LIBRARIES_INJECTION
                           THEN "SKIPPED"
                           ELSE IF m = "JAVA_LIBRARIES" /\ cfg.ALLOW_ALL_JAVA_LIBRARIES_INJECTION
                           THEN tmp ELSE m
        \* 154-155
        Rule154(m) == IF m = "MISC" /\ cfg.DISABLE_MISC_INJECTION THEN "SKIPPED" ELSE m
        \* 157-160
        Rule157(m, tmp) == IF file_extension = ".apk"
                              /\ (file_name \in cfg.ALLOW_APP_INJECT_ALWAYS
                                  \/ \E keyword \in cfg.ALLOW_APP_INJECT_ALWAYS_KEYWORD_LIST :
                                         Contains(file_name, keyword))
                           THEN tmp ELSE m
        \* 163-166
        Rule163(m, tmp) == IF \/ file_name \in cfg.ALLOW_FILE_INJECT_ALWAYS
                              \/ \E keyword \in cfg.ALLOW_FILE_INJECT_ALWAYS_KEYWORD_LIST :
                                     PathContains(source_file_path, keyword)
                           THEN tmp ELSE m
        \* the rules in the order of the code, each applied to the result of the one before
        Before116(tmp) == Rule111(Rule108(Rule105(Rule102(Rule100(tmp)))))
        Rules(tmp) ==
            Rule163(Rule157(Rule154(Rule148(Rule144(Rule140(Rule135(Rule132(Rule124(
                Rule116(Before116(tmp))
                , tmp))))), tmp)), tmp), tmp)
        \* line 117: `for package_name in None` raises TypeError
        Raises(m) == m \in {"SHARED_LIBRARIES", "ETC", "APPS"} /\ pre_injector_package_list = NoList
        Both(tmp) == IF Raises(Before116(tmp)) THEN <<"TypeError", tmp>> ELSE <<Rules(tmp), tmp>>
    IN  Both(BaseModuleType(source_file_path, kind))

\* ---------------------------------------------------------------------------
\* The file system.  fs maps every existing file to its content
\* [kind, org, form]: kind as above, org the path the bytes were first read
\* from (Build for a file the build produced), form what the tools did to them.
\* Source files live under ALL_FILES, the build output tree under OUT.
\* ---------------------------------------------------------------------------
Exists(f, path) == path \in DOMAIN f
KindAt(f, path) == IF Exists(f, path) THEN f[path].kind ELSE "unreadable"
Put(f, path, content) == [q \in DOMAIN f \cup {path} |-> IF q = path THEN content ELSE f[q]]
Del(f, path) == [q \in DOMAIN f \ {path} |-> f[q]]
InTree(path) == Len(path) > 0 /\ path[1] = OUT
TreeOf(f) == [q \in {x \in DOMAIN f : InTree(x)} |-> f[q]]

\* common.check_shared_object_architecture / check_binary_architecture: byte 4
check_shared_object_architecture(f, file_path) ==
    IF ~Exists(f, file_path) \/ f[file_path].kind = "unreadable" THEN "Error determining architecture"
    ELSE IF f[file_path].kind = "elf32" THEN "32-bit"
    ELSE IF f[file_path].kind = "elf64" THEN "64-bit"
    ELSE "Unknown architecture"

check_binary_architecture(f, binary_path) == check_shared_object_architecture(f, binary_path)

is_abi_compatible(f, candidate_path, file_path) ==
    LET candidate_arch == check_binary_architecture(f, candidate_path)
        src_arch == check_binary_architecture(f, file_path)
    IN  ~(candidate_arch = "Unknown architecture" \/ candidate_arch # src_arch)

\* ---------------------------------------------------------------------------
\* get_target_injection_path (lines 969-1006) and its helpers
\* ---------------------------------------------------------------------------
IndexOf(seq, x) == CHOOSE i \in DOMAIN seq : seq[i] = x /\ \A j \in 1..(i - 1) : seq[j] # x

\* get_subfolders: the directories between the first top_folder_name and the file
get_subfolders(file_path, top_folder_name) ==
    IF (\E i \in DOMAIN file_path : file_path[i] = <<top_folder_name>>)
       /\ file_path[1] # <<top_folder_name>>
    THEN SubSeq(file_path, IndexOf(file_path, <<top_folder_name>>) + 1, Len(file_path) - 1)
    ELSE <<>>

\* str.replace("/a/b/", "/b/") on a directory path: one pass from the left, a
\* replaced pair needs a component after it, and the component that follows a
\* replaced pair cannot start the next match
RECURSIVE ReplacePair(_, _, _, _, _)
ReplacePair(dir, a, b, i, blocked) ==
    IF i > Len(dir) THEN <<>>
    ELSE IF ~blocked /\ i >= 2 /\ i + 1 < Len(dir) /\ dir[i] = <<a>> /\ dir[i + 1] = <<b>>
         THEN <<dir[i + 1]>> \o ReplacePair(dir, a, b, i + 2, TRUE)
         ELSE <<dir[i]>> \o ReplacePair(dir, a, b, i + 1, FALSE)

\* `"/lib" in path`: a component that starts with lib
HasSlashLib(path) == \E i \in 2..Len(path) : path[i][1] = "lib"

get_target_injection_path(f, cfg, source_file_path, partition_name_arg) ==
    LET partition_name == IF partition_name_arg = "super" THEN "system" ELSE partition_name_arg
        filename == basename(source_file_path)
        file_extension == splitext(filename)[2]
        target_partition_path == <<OUT, <<partition_name>>>>
        subfolder_list == get_subfolders(source_file_path, partition_name)
        isolated ==
            /\ file_extension = ".so"
            /\ cfg.USE_ISOLATED_NAMESPACE
            /\ HasSlashLib(source_file_path)
            /\ check_shared_object_architecture(f, source_file_path) = "64-bit"
            /\ filename \in cfg.ISOLATED_NAMESPACE_NATIVE_LIBRARY_LIST
        d0 == IF isolated THEN target_partition_path \o <<<<"fmd">>>>
              ELSE target_partition_path \o subfolder_list
        d1 == ReplacePair(d0, "system", "system", 1, FALSE)
        d2 == ReplacePair(d1, "system", "system_ext", 1, FALSE)
        d3 == ReplacePair(d2, "system", "vendor", 1, FALSE)
        d4 == ReplacePair(d3, "system", "product", 1, FALSE)
        target_dir_injection_path == IF Len(subfolder_list) = 0 THEN target_partition_path ELSE d4
    IN  target_dir_injection_path \o <<filename>>


\* ---------------------------------------------------------------------------
\* The matcher (lines 735-913)
\* ---------------------------------------------------------------------------
\* `"arm" in path` / `"arm64" in name`
ArmTokens == {"arm", "arm64"}
HasArm(path) == \E t \in ArmTokens : PathContains(path, t)

is_parent_dir_arm_and_target_arm(file_path, candidate_path) ==
    LET parent_dir_file_path == basename(dirname(file_path))
        parent_dir_candidate == basename(dirname(candidate_path))
    IN  IF parent_dir_file_path = <<"arm64">>
        THEN Contains(parent_dir_candidate, "arm64")
        ELSE IF parent_dir_file_path = <<"arm">>
        THEN ~Contains(parent_dir_candidate, "arm64") /\ Contains(parent_dir_candidate, "arm")
        ELSE FALSE

MODULE_TYPE_ABI_COMPATIBLE == {"SHARED_LIBRARIES", "EXECUTABLES", "ETC"}

\* check_file_compatibility without the ELF probe of lines 890-903
check_file_compatibility_unprobed(f, file_path, candidate_path, module_type) ==
    IF module_type = "JAVA_LIBRARIES" THEN TRUE
    ELSE IF HasArm(file_path) THEN is_parent_dir_arm_and_target_arm(file_path, candidate_path)
    ELSE TRUE

\* lines 886-913
check_file_compatibility(f, file_path, candidate_path, module_type) ==
    LET abi_ok ==
            IF module_type \in MODULE_TYPE_ABI_COMPATIBLE /\ is_elf_binary(KindAt(f, file_path))
            THEN /\ is_abi_compatible(f, candidate_path, file_path)
                 /\ check_shared_object_architecture(f, candidate_path)
                        = check_shared_object_architecture(f, file_path)
            ELSE TRUE
        arm_ok ==
            IF HasArm(file_path)
            THEN is_parent_dir_arm_and_target_arm(file_path, candidate_path)
            ELSE TRUE
    IN  IF module_type = "JAVA_LIBRARIES" THEN TRUE ELSE abi_ok /\ arm_ok

IsPrefix(pre, path) == Len(pre) < Len(path) /\ SubSeq(path, 1, Len(pre)) = pre

\* get_all_files: every file below the directory
get_all_files(f, directory) == {q \in DOMAIN f : IsPrefix(directory, q)}

\* `"ndk" in path` is also true of a path that holds vndk
HasNdk(path) == PathContains(path, "ndk") \/ PathContains(path, "vndk")

\* `partition_name in root`: the name on its own or behind an underscore
UnderscoreToken(partition_name) ==
    CASE partition_name = "vendor" -> "_vendor"
      [] partition_name = "product" -> "_product"
      [] partition_name = "system_ext" -> "_system_ext"
      [] partition_name = "odm" -> "_odm"
      [] partition_name = "oem" -> "_oem"
      [] partition_name = "data" -> "_data"
      [] OTHER -> "_"

PartitionIn(root, partition_name) ==
    \/ partition_name = ""
    \/ PathContains(root, partition_name)
    \/ PathContains(root, UnderscoreToken(partition_name))

\* str.replace("_", "") inside a token
Ununderscored(token) ==
    CASE token = "_compressed" -> "compressed"
      [] token = "_trimmed" -> "trimmed"
      [] token = "_vendor" -> "vendor"
      [] token = "_product" -> "product"
      [] token = "_system_ext" -> "systemext"
      [] OTHER -> token

\* lines 825-828: the candidate's folder name without the build's decorations;
\* with the partition name emptied by line 796, f"_{partition_name}" is "_"
StrippedRootFolderName(root, partition_name) ==
    LET plain == Remove(Remove(basename(root), "_intermediates"), "v1_prebuilt")
        cut == Remove(plain, UnderscoreToken(partition_name))
    IN  IF partition_name = ""
        THEN Remove([i \in DOMAIN plain |-> Ununderscored(plain[i])], "_")
        ELSE cut

\* the result list; an empty result is returned as None
search_original_file_in_obj(f, cfg, partition_name_arg, module_type, file_path, file_name) ==
    LET target_obj_path == <<OUT, <<"obj">>>>
        search_folder_path ==
            IF module_type \notin {"MISC", "STATIC_CONFIG"}
            THEN target_obj_path \o <<<<module_type>>>> ELSE target_obj_path
        partition_name == IF partition_name_arg \in {"super", "system"} THEN "" ELSE partition_name_arg
        all_files == get_all_files(f, search_folder_path)
        matches == {q \in all_files : basename(q) = file_name}
        file_extension == splitext(file_name)[2]
        file_path_list ==
            IF matches # {}
            THEN {q \in matches : check_file_compatibility(f, file_path, q, module_type)}
            ELSE {q \in all_files : splitext(basename(q))[2] = file_extension}
        module_name == splitext(file_name)[1]
        accepted(candidate_path) ==
            LET root == dirname(candidate_path)
                root_folder_name_stripped == StrippedRootFolderName(root, partition_name)
                file_extension_obj == splitext(basename(candidate_path))[2]
            IN  /\ ~((PathContains(candidate_path, "vndk") /\ ~PathContains(file_path, "vndk"))
                     \/ (HasNdk(candidate_path) /\ ~HasNdk(file_path)))
                /\ check_file_compatibility(f, file_path, candidate_path, module_type)
                /\ IF basename(candidate_path) = file_name
                   THEN /\ PartitionIn(root, partition_name)
                        /\ ~(PathContains(candidate_path, "com.android.")
                             /\ ~PathContains(file_path, "com.android."))
                   ELSE /\ module_name = root_folder_name_stripped
                        /\ PartitionIn(root, partition_name)
                        /\ \/ file_extension = file_extension_obj
                           \/ /\ {file_extension, file_extension_obj} = {".apex", ".capex"}
                              /\ cfg.ALLOW_APEX_INJECTION_MERGE
    IN  {q \in file_path_list : accepted(q)}


\* ---------------------------------------------------------------------------
\* The injection strategy (lines 481-579, 1010-1209).  Every operator returns
\* the file system it leaves behind together with its Python result; ch holds
\* the outcomes of the calls whose result the environment decides:
\*   ch.tool  the external tool chain of a transform:
\*            ok        every stage succeeds
\*            fail      a stage reports failure before the container is packaged
\*            raise     a stage raises an Exception
\*            exit      the exit(-1) of load_apex_manifest_from_aosp
\*                      (aosp_apex_injector.py 774-817), which only a merge reaches
\*            unsigned  the container is packaged (create_apex_container wrote the
\*                      output file) and signing or the public-key replacement fails
\*   ch.copy  TRUE iff shutil.copy2 / copyfile succeeds
\*   ch.chmod TRUE iff os.chmod succeeds
\* raised = TRUE stands for an exception that leaves the operator.
\* ---------------------------------------------------------------------------
Choices ==
    [tool : {"ok", "fail", "raise", "exit", "unsigned"}, copy : BOOLEAN, chmod : BOOLEAN]

BuildImagePy == <<<<"aosp">>, <<"build_image.py">>>>
HostRoot == <<"/">>

\* lines 1132-1175: rewrites build_image.py when the isolated namespace is on
inject_apex_symlink_file(f, cfg, source_file_path, ch) ==
    IF cfg.USE_ISOLATED_NAMESPACE
    THEN IF Exists(f, BuildImagePy) /\ ch.copy
         THEN [fs |-> Put(f, BuildImagePy, [f[BuildImagePy] EXCEPT !.form = "edited"]),
               is_injected |-> TRUE, wrote |-> {BuildImagePy}]
         ELSE [fs |-> f, is_injected |-> FALSE, wrote |-> {}]
    ELSE [fs |-> f, is_injected |-> TRUE, wrote |-> {}]

\* lines 949-967: chmod applies to an existing regular .so file only
set_executable_permission(f, file_path, ch) ==
    IF Exists(f, file_path) /\ splitext(basename(file_path))[2] = ".so"
    THEN ch.chmod ELSE TRUE

\* lines 1010-1085, direct injection
inject_file_into_partition(f, cfg, source_file_path, target_arg, ch) ==
    LET filename == basename(target_arg)
        target_file_injection_path ==
            IF filename \in cfg.DIRECT_INJECTION_TARGET_PATH_OVERWRITE
            THEN DirectOverwritePath(filename) ELSE target_arg
    IN  IF filename \in cfg.APEX_BINARY_ISOLATED_NAMESPACE_LIST
        THEN LET r == inject_apex_symlink_file(f, cfg, source_file_path, ch)
             IN  [fs |-> r.fs, target_path |-> target_file_injection_path,
                  raised |-> FALSE, wrote |-> r.wrote]
        ELSE IF Exists(f, target_file_injection_path)
        THEN \* overwrite; every error of this branch is caught and logged
             IF Exists(f, source_file_path) /\ ch.copy
             THEN [fs |-> Put(f, target_file_injection_path, f[source_file_path]),
                   target_path |-> target_file_injection_path, raised |-> FALSE,
                   wrote |-> {target_file_injection_path}]
             ELSE [fs |-> f, target_path |-> target_file_injection_path,
                   raised |-> FALSE, wrote |-> {}]
        ELSE LET copied == Exists(f, source_file_path) /\ ch.copy
                 f1 == IF copied THEN Put(f, target_file_injection_path, f[source_file_path])
                       ELSE f
             IN  [fs |-> f1, target_path |-> target_file_injection_path,
                  raised |-> ~set_executable_permission(f1, target_file_injection_path, ch),
                  wrote |-> IF copied THEN {target_file_injection_path} ELSE {}]

\* lines 1178-1209, overwrite of a matched candidate
inject_file_into_obj(f, cfg, source_file_path, original_file_path, module_type, ch) ==
    LET filename == basename(source_file_path)
        file_name == basename(original_file_path)
    IN  IF ~Exists(f, source_file_path) \/ ~Exists(f, original_file_path)
        THEN \* compute_file_hash outside the try block
             [fs |-> f, is_injected |-> FALSE, raised |-> TRUE, wrote |-> {}]
        ELSE IF \E i \in 2..(Len(original_file_path) - 1) : original_file_path[i] = <<"apex">>
        THEN LET new_file_path ==
                     IF module_type = "JAVA_LIBRARIES"
                     THEN <<HostRoot, <<"system">>, <<"framework">>, file_name>>
                     ELSE IF module_type = "BINARY"
                     THEN <<HostRoot, <<"bin">>, file_name>>
                     ELSE <<HostRoot, <<"etc">>, file_name>>
             IN  IF ch.copy
                 THEN [fs |-> Put(f, new_file_path, f[source_file_path]), is_injected |-> TRUE,
                       raised |-> FALSE, wrote |-> {new_file_path}]
                 ELSE [fs |-> f, is_injected |-> FALSE, raised |-> FALSE, wrote |-> {}]
        ELSE IF filename \in cfg.APEX_BINARY_ISOLATED_NAMESPACE_LIST
        THEN LET r == inject_apex_symlink_file(f, cfg, source_file_path, ch)
             IN  [fs |-> r.fs, is_injected |-> r.is_injected, raised |-> FALSE,
                  wrote |-> r.wrote]
        ELSE IF ch.copy
             THEN [fs |-> Put(f, original_file_path, f[source_file_path]),
                   is_injected |-> TRUE, raised |-> FALSE, wrote |-> {original_file_path}]
             ELSE [fs |-> f, is_injected |-> FALSE, raised |-> FALSE, wrote |-> {}]

\* common.remove_vendor_name_from_path: vendor words are dropped from the name
VendorWords == {".samsung", ".Samsung", ".google", ".Google", ".huawei", ".Huawei"}
RECURSIVE RemoveAll(_, _)
RemoveAll(name, words) ==
    IF words = {} THEN name
    ELSE LET w == CHOOSE x \in words : TRUE IN RemoveAll(Remove(name, w), words \ {w})
remove_vendor_name_from_path(file_path) ==
    dirname(file_path) \o <<RemoveAll(basename(file_path), VendorWords)>>

\* the loop of lines 522-529 over the candidates in the order the walk gave them
RECURSIVE InjectAll(_, _, _, _, _, _)
InjectAll(f, cfg, file_path, candidates, module_type, ch) ==
    IF candidates = <<>>
    THEN [fs |-> f, is_injected |-> FALSE, raised |-> FALSE, wrote |-> {}, inj_obj |-> None]
    ELSE LET Merge(r, rest) == [rest EXCEPT !.wrote = r.wrote \cup rest.wrote]
             After(r) ==
                 IF r.raised
                 THEN [fs |-> r.fs, is_injected |-> FALSE, raised |-> TRUE, wrote |-> r.wrote,
                       inj_obj |-> None]
                 ELSE IF Len(candidates) = 1
                 THEN [fs |-> r.fs, is_injected |-> r.is_injected, raised |-> FALSE,
                       wrote |-> r.wrote,
                       inj_obj |-> <<file_path, candidates[1], module_type>>]
                 ELSE Merge(r, InjectAll(r.fs, cfg, file_path, Tail(candidates), module_type, ch))
         IN  After(inject_file_into_obj(f, cfg, file_path, candidates[1], module_type, ch))

\* a set as the list some directory walk produces
RECURSIVE SetToSeq(_)
SetToSeq(S) ==
    IF S = {} THEN <<>>
    ELSE LET x == CHOOSE y \in S : TRUE IN <<x>> \o SetToSeq(S \ {x})

\* lines 481-536; is_injected is "True", "False" or "None"
indirect_injection(f, cfg, target_file_injection_path, file_name, partition_name, module_type, file_path, inj_partition, ch) ==
    LET file_ext == splitext(file_name)[2]
        skip == [fs |-> f, inj_obj |-> None, inj_partition |-> inj_partition,
                 is_injected |-> "None", raised |-> FALSE, wrote |-> {}]
        mapped == file_name \in cfg.INDIRECT_INJECTION_FILE_MAPPING
        Search(path, name) ==
            SetToSeq(search_original_file_in_obj(f, cfg, partition_name, module_type, path, name))
        first ==
            IF mapped
            THEN IF check_file_compatibility(f, file_path, target_file_injection_path, module_type)
                 THEN <<IndirectMappingPath(file_name)>> ELSE <<>>
            ELSE Search(file_path, file_name)
        file_path_vendor_replaced == remove_vendor_name_from_path(file_path)
        \* lines 510-515: the second search runs when the first found nothing
        OrElse(found, again) == IF found # <<>> THEN found ELSE again
        Injected(r) ==
            [fs |-> r.fs, inj_obj |-> r.inj_obj, inj_partition |-> inj_partition,
             is_injected |-> IF r.is_injected THEN "True" ELSE "False",
             raised |-> r.raised, wrote |-> r.wrote]
        Overwrite(original_file_path_list) ==
            IF original_file_path_list # <<>>
            THEN Injected(InjectAll(f, cfg, file_path, original_file_path_list, module_type, ch))
            ELSE [fs |-> f,
                  inj_obj |-> <<<<"Original file not found for indirect injection">>, None, module_type>>,
                  inj_partition |-> inj_partition, is_injected |-> "False", raised |-> FALSE,
                  wrote |-> {}]
    IN  IF file_ext \in cfg.SKIPPED_FILE_EXTENSION_LIST_INDIRECT_INJECTION
        THEN skip
        ELSE IF /\ file_name \notin cfg.ALLOW_FILE_INJECT_ALWAYS
                /\ cfg.ENABLE_SHARED_LIBRARIES_INJECTION_IF_NOT_EXISTS
                /\ file_ext = ".so"
        THEN skip
        ELSE Overwrite(OrElse(first, Search(file_path_vendor_replaced,
                                            basename(file_path_vendor_replaced))))


\* lines 539-579: <<inj_obj, inj_partition>> and the strategies that ran
search_and_inject(f, cfg, partition_name, module_type, file_path, ch) ==
    LET file_name == basename(file_path)
        file_extension == splitext(file_name)[2]
        Direct(d, obj, stages, wrote0) ==
            [fs |-> d.fs, raised |-> d.raised,
             inj_obj |-> IF d.raised THEN None ELSE obj,
             inj_partition |-> IF d.raised THEN None
                               ELSE <<file_path, d.target_path, module_type>>,
             ran |-> stages, wrote |-> wrote0 \cup d.wrote]
        Indirect(ind) ==
            [fs |-> ind.fs, raised |-> ind.raised,
             inj_obj |-> IF ind.raised THEN None ELSE ind.inj_obj,
             inj_partition |-> IF ind.raised THEN None ELSE ind.inj_partition,
             ran |-> {"indirect"}, wrote |-> ind.wrote]
        Strategy(target_file_injection_path, ind) ==
            IF file_extension \in {".apex", ".capex"}
            THEN IF /\ ~Exists(f, target_file_injection_path)
                    /\ ~\E keyword \in cfg.ALLOW_APEX_MERGE_KEYWORD_LIST :
                            Contains(basename(target_file_injection_path), keyword)
                 THEN Direct(inject_file_into_partition(f, cfg, file_path,
                                                        target_file_injection_path, ch),
                             None, {"direct"}, {})
                 ELSE Indirect(ind)
            ELSE IF ~Exists(f, target_file_injection_path)
            THEN Direct(inject_file_into_partition(f, cfg, file_path,
                                                   target_file_injection_path, ch),
                        None, {"direct"}, {})
            ELSE IF ~ind.raised /\ ind.is_injected = "False"
            THEN Direct(inject_file_into_partition(ind.fs, cfg, file_path,
                                                   target_file_injection_path, ch),
                        ind.inj_obj, {"indirect", "fallback"}, ind.wrote)
            ELSE Indirect(ind)
        At(target_file_injection_path) ==
            Strategy(target_file_injection_path,
                     indirect_injection(f, cfg, target_file_injection_path, file_name,
                                        partition_name, module_type, file_path, None, ch))
    IN  At(get_target_injection_path(f, cfg, file_path, partition_name))

\* ---------------------------------------------------------------------------
\* The transforms process_file_concurrently runs before search_and_inject
\* (lines 354-407).  Their tool chains are external: ch.tool is their outcome.
\* ---------------------------------------------------------------------------
BackupPath(file_path) == Front(file_path) \o <<basename(file_path) \o <<".original_apex">>>>

\* handle_app_modules -> handle_apk_signing: the APK is signed in place
handle_app_modules(f, file_path, ch) ==
    IF ch.tool = "ok" /\ Exists(f, file_path)
    THEN [fs |-> Put(f, file_path, [f[file_path] EXCEPT !.form = "signed"]),
          error_message |-> None, raised |-> FALSE]
    ELSE [fs |-> f, error_message |-> <<"Error signing APK file">>, raised |-> ch.tool = "raise"]

\* prepare_apex_out_file (aosp_apex_injector.py 1312-1315):
\* basename.replace(".apex", ".v2.apex"); a name that ends in .capex holds no
\* ".apex" and comes back as it is
RECURSIVE ReplaceApex(_)
ReplaceApex(name) ==
    IF name = <<>> THEN <<>>
    ELSE (IF Head(name) = ".apex" THEN <<".v2", ".apex">> ELSE <<Head(name)>>)
             \o ReplaceApex(Tail(name))
prepare_apex_out_file(file_path) == dirname(file_path) \o <<ReplaceApex(basename(file_path))>>

\* backup_original_apex_file (aosp_apex_injector.py 65-77) with
\* restore_original_apex (1307-1309): the backup is restored or taken, then
\* an output file of an earlier operation is removed
backup_original_apex_file(f, file_path) ==
    LET Cleared(f1, apex_out_file) == IF Exists(f1, apex_out_file) THEN Del(f1, apex_out_file) ELSE f1
    IN  Cleared(IF Exists(f, BackupPath(file_path))
                THEN Put(f, file_path, f[BackupPath(file_path)])
                ELSE Put(f, BackupPath(file_path), f[file_path]),
                prepare_apex_out_file(file_path))

\* handle_apex_modules (26-63) and repackage_apex_file (127-178): the backup
\* is taken (or restored) first; for a missing file os.remove / copyfile raise
\* before anything is written.  Errors of the tool chain are caught inside and
\* reported as not successful; the SystemExit of exit(-1) passes the
\* `except Exception` of line 59.  A merge replaces the original whenever the
\* output file exists (lines 44-47) and then reports success whatever
\* merge_apex_files returned, and puts the backup back when there is no output
\* file (lines 50-52); a repack replaces the original after signing succeeded
\* (lines 206-209) and otherwise leaves what create_apex_container wrote at the
\* output path.  failed tells that a stage of the tool chain failed.  No tool
\* succeeds on a file that backup_original_apex_file removed.
ContainerTransform(f, file_path, form, ch) ==
    IF ~Exists(f, file_path)
    THEN [fs |-> f, ok |-> FALSE, exited |-> FALSE, failed |-> TRUE]
    ELSE LET Run(f1) ==
                 IF ~Exists(f1, file_path)
                 THEN [fs |-> IF form = "merged" /\ ch.tool # "raise"
                              THEN Put(f1, file_path, f1[BackupPath(file_path)]) ELSE f1,
                       ok |-> FALSE, exited |-> FALSE, failed |-> TRUE]
                 ELSE IF ch.tool = "ok"
                 THEN [fs |-> Put(f1, file_path, [f1[file_path] EXCEPT !.form = form]), ok |-> TRUE,
                       exited |-> FALSE, failed |-> FALSE]
                 ELSE IF ch.tool = "unsigned" /\ form = "merged"
                 THEN [fs |-> Put(f1, file_path, [f1[file_path] EXCEPT !.form = "unsigned"]),
                       ok |-> TRUE, exited |-> FALSE, failed |-> TRUE]
                 ELSE IF ch.tool = "unsigned"
                 THEN [fs |-> Put(f1, prepare_apex_out_file(file_path),
                                  [f1[file_path] EXCEPT !.form = "unsigned"]),
                       ok |-> FALSE, exited |-> FALSE, failed |-> TRUE]
                 ELSE [fs |-> f1, ok |-> FALSE, exited |-> form = "merged" /\ ch.tool = "exit",
                       failed |-> TRUE]
         IN  Run(backup_original_apex_file(f, file_path))

\* add_new_apex_file (aosp_apex_injector.py 242-545): wraps the binary into a
\* new container below <partition>/apex of the build output
NewApexPath(file_path, partition_name) ==
    <<OUT, <<partition_name>>, <<"apex">>,
      <<"com.android.fmd.">> \o basename(file_path) \o <<".apex">>>>

add_new_apex_file(f, file_path, partition_name, ch) ==
    IF ch.tool = "ok" /\ Exists(f, file_path)
    THEN [fs |-> Put(f, NewApexPath(file_path, partition_name),
                     [f[file_path] EXCEPT !.form = "wrapped"]),
          ok |-> TRUE, wrote |-> {NewApexPath(file_path, partition_name)}]
    ELSE [fs |-> f, ok |-> FALSE, wrote |-> {}]

\* replace_capex_with_apex (lines 468-479): on success the extracted .apex
\* stands next to the renamed .capex
ApexOfCapex(file_path) ==
    Front(file_path) \o <<Front(basename(file_path)) \o <<".apex">>>>
OriginalCapexPath(file_path) ==
    Front(file_path) \o <<basename(file_path) \o <<".original_capex">>>>

replace_capex_with_apex(f, file_path, ch) ==
    IF Exists(f, file_path) /\ ch.copy
    THEN [fs |-> Del(Put(Put(f, ApexOfCapex(file_path), [f[file_path] EXCEPT !.form = "extracted"]),
                         OriginalCapexPath(file_path), f[file_path]), file_path),
          file_path |-> ApexOfCapex(file_path)]
    ELSE [fs |-> f, file_path |-> file_path]

\* re.sub(r'tzdata\d+', 'tzdata', filename)
TzdataTokens == {"tzdata5", "tzdata6"}
NormaliseTzdata(name) == [i \in DOMAIN name |-> IF name[i] \in TzdataTokens THEN "tzdata" ELSE name[i]]
HasTzdata(name) == Contains(name, "tzdata") \/ \E t \in TzdataTokens : Contains(name, t)

\* rename_file (lines 424-439): os.rename, which raises for a missing file
rename_file(f, file_path, new_name) ==
    LET new_file_path == Front(file_path) \o <<new_name>>
    IN  IF ~Exists(f, file_path) THEN [fs |-> f, file_path |-> file_path, raised |-> TRUE]
        ELSE IF new_file_path = file_path THEN [fs |-> f, file_path |-> file_path, raised |-> FALSE]
        ELSE [fs |-> Del(Put(f, new_file_path, f[file_path]), file_path),
              file_path |-> new_file_path, raised |-> FALSE]

\* `"ALL_FILES/system/" in file_path`
UnderAllFilesSystem(file_path) ==
    \E i \in 1..(Len(file_path) - 2) : file_path[i] = AF /\ file_path[i + 1] = SYS

\* lines 353-412 of process_file_concurrently: the body for a file that is not
\* SKIPPED.  No artifact of the catalogue is named bluetooth, so the rename of
\* lines 364-367 leaves every path as it is.
ProcessFile(f, cfg, file_path_arg, partition_name, module_type, ch) ==
    LET filename == basename(file_path_arg)
        file_extension == splitext(filename)[2]
        \* the state in front of line 409
        done(f1, fp, err, stages, w) ==
            [fs |-> f1, file_path |-> fp, error_message |-> err, raised |-> FALSE,
             exited |-> FALSE, stage_failed |-> FALSE, ran |-> stages, wrote |-> w]
        raise(f1, fp, err, stages) ==
            [fs |-> f1, file_path |-> fp, error_message |-> err, raised |-> TRUE,
             exited |-> FALSE, stage_failed |-> FALSE, ran |-> stages, wrote |-> {}]
        exit(f1, fp, stages) ==
            [fs |-> f1, file_path |-> fp, error_message |-> None, raised |-> FALSE,
             exited |-> TRUE, stage_failed |-> FALSE, ran |-> stages, wrote |-> {}]
        \* lines 354-359
        Signed(r) ==
            IF r.raised THEN raise(r.fs, file_path_arg, None, {"apk_sign"})
            ELSE done(r.fs, file_path_arg, r.error_message, {"apk_sign"}, {})
        \* lines 369-394
        Stage(m, r) == [r EXCEPT !.stage_failed = m.failed]
        Merged(m, fp) ==
            IF m.exited THEN Stage(m, exit(m.fs, fp, {"merge"}))
            ELSE IF ~m.ok
            THEN Stage(m, raise(m.fs, fp, <<"Error handling merge APEX file">>, {"merge"}))
            ELSE Stage(m, done(m.fs, fp, None, {"merge"}, {}))
        Repacked(m, fp) ==
            done(m.fs, fp, IF m.ok THEN None ELSE <<"Error handling repack APEX file">>,
                 {"repack"}, {})
        Renamed(tz) ==
            IF tz.raised THEN raise(tz.fs, tz.file_path, None, {})
            ELSE IF /\ cfg.ALLOW_APEX_INJECTION_MERGE
                    /\ \E keyword \in cfg.ALLOW_APEX_MERGE_KEYWORD_LIST : Contains(filename, keyword)
                    /\ UnderAllFilesSystem(tz.file_path)
            THEN Merged(ContainerTransform(tz.fs, tz.file_path, "merged", ch), tz.file_path)
            ELSE Repacked(ContainerTransform(tz.fs, tz.file_path, "repacked", ch), tz.file_path)
        \* lines 360-363
        Extracted(c) ==
            Renamed(IF PathContains(c.file_path, "tzdata") \/ HasTzdata(filename)
                    THEN rename_file(c.fs, c.file_path, NormaliseTzdata(filename))
                    ELSE [fs |-> c.fs, file_path |-> c.file_path, raised |-> FALSE])
        \* lines 396-407
        Added(r) ==
            done(r.fs, file_path_arg, IF r.ok THEN None ELSE <<"Error adding APEX file">>,
                 {"apex_add"}, r.wrote)
        before ==
            IF module_type = "APPS" /\ file_extension = ".apk"
            THEN Signed(handle_app_modules(f, file_path_arg, ch))
            ELSE IF file_extension \in {".apex", ".capex"}
            THEN Extracted(IF file_extension = ".capex"
                           THEN replace_capex_with_apex(f, file_path_arg, ch)
                           ELSE [fs |-> f, file_path |-> file_path_arg])
            ELSE IF /\ module_type = "EXECUTABLES" /\ is_elf_binary(KindAt(f, file_path_arg))
                    /\ filename \in cfg.APEX_BINARY_ISOLATED_NAMESPACE_LIST
            THEN Added(add_new_apex_file(f, file_path_arg, partition_name, ch))
            ELSE done(f, file_path_arg, None, {}, {})
        \* lines 409-412
        Searched(b, r) ==
            [fs |-> r.fs, file_path |-> b.file_path, error_message |-> None,
             inj_obj |-> r.inj_obj, inj_partition |-> r.inj_partition,
             raised |-> r.raised, exited |-> FALSE, stage_failed |-> b.stage_failed,
             ran |-> b.ran \cup r.ran, wrote |-> b.wrote \cup r.wrote]
        Finish(b) ==
            IF ~b.raised /\ ~b.exited /\ b.error_message = None
            THEN Searched(b, search_and_inject(b.fs, cfg, partition_name, module_type,
                                               b.file_path, ch))
            ELSE [fs |-> b.fs, file_path |-> b.file_path, error_message |-> b.error_message,
                  inj_obj |-> None, inj_partition |-> None, raised |-> b.raised,
                  exited |-> b.exited, stage_failed |-> b.stage_failed,
                  ran |-> b.ran, wrote |-> b.wrote]
    IN  Finish(before)

\* ---------------------------------------------------------------------------
\* process_file_concurrently (lines 325-422), one action per step between two
\* points at which another process can run
\* ---------------------------------------------------------------------------
LockPath(file_path) == Front(file_path) \o <<basename(file_path) \o <<".fmd-aecs-lock">>>>
MarkerPath(file_path) == Front(file_path) \o <<basename(file_path) \o <<".fmd-aecs-processed">>>>
EmptyFile == [kind |-> "data", org |-> Build, form |-> "empty"]

AlreadyProcessed == <<"File already processed">>
SkippedMessage == <<"Skipped File post-inject (Keyword/Extension/Filename)">>
ExceptionMessage == <<"exception">>

\* lines 326-331
NewTask(file_path, partition_name) ==
    [path |-> file_path, partition_name |-> partition_name, pc |-> "queued",
     file_path |-> file_path, module_type |-> "", error_message |-> None,
     inj_obj |-> None, inj_partition |-> None, exc |-> FALSE, exited |-> FALSE,
     stage_failed |-> FALSE, result |-> None,
     sawMarker |-> "", classified |-> FALSE, ran |-> {}, wrote |-> {}]

Running == {t \in DOMAIN tasks : tasks[t].pc \notin {"queued", "done"}}
LockFree(file_path) == \A t \in held : tasks[t].path # file_path

\* a submitted call starts when a process of the pool is free (the order in
\* which list(set(...)) hands the paths over is arbitrary, so any queued call
\* may be the next); a direct caller starts whenever it likes
MayStart(t) == orch.phase = "external" \/ Cardinality(Running) < NumWorkers

\* Enter without the check of line 333
Enter_unchecked(t) ==
    /\ tasks[t].pc = "queued"
    /\ MayStart(t)
    /\ tasks' = [tasks EXCEPT ![t].pc = "acquire"]
    /\ UNCHANGED <<POST_INJECTOR_CONFIG, cfgOn, fs, held, orch, clPath, clOut>>

\* lines 333-334
Enter(t) ==
    /\ tasks[t].pc = "queued"
    /\ MayStart(t)
    /\ IF Exists(fs, MarkerPath(tasks[t].path))
       THEN tasks' = [tasks EXCEPT ![t].pc = "done", ![t].sawMarker = "entry",
                                   ![t].result = <<AlreadyProcessed, None, None>>]
       ELSE tasks' = [tasks EXCEPT ![t].pc = "acquire"]
    /\ UNCHANGED <<POST_INJECTOR_CONFIG, cfgOn, fs, held, orch, clPath, clOut>>

\* line 337: FileLock.acquire creates the lock file and blocks while it is held
Acquire(t) ==
    /\ tasks[t].pc = "acquire"
    /\ LockFree(tasks[t].path)
    /\ held' = held \cup {t}
    /\ fs' = Put(fs, LockPath(tasks[t].path), EmptyFile)
    /\ tasks' = [tasks EXCEPT ![t].pc = "locked"]
    /\ UNCHANGED <<POST_INJECTOR_CONFIG, cfgOn, orch, clPath, clOut>>

\* lines 338-339
Recheck(t) ==
    /\ tasks[t].pc = "locked"
    /\ IF Exists(fs, MarkerPath(tasks[t].path))
       THEN tasks' = [tasks EXCEPT ![t].pc = "release", ![t].sawMarker = "locked",
                                   ![t].result = <<AlreadyProcessed, None, None>>]
       ELSE tasks' = [tasks EXCEPT ![t].pc = "classify"]
    /\ UNCHANGED <<POST_INJECTOR_CONFIG, cfgOn, fs, held, orch, clPath, clOut>>

\* ClassifyFile without the SKIPPED branch of line 349
ClassifyFile_unguarded(t) ==
    /\ tasks[t].pc = "classify"
    /\ \E r \in {get_module_type(tasks[t].path, PackageList(cfgOn), Config(cfgOn),
                                 KindAt(fs, tasks[t].path))} :
           tasks' = [tasks EXCEPT ![t].classified = TRUE, ![t].module_type = r[1],
                                  ![t].pc = "process"]
    /\ UNCHANGED <<POST_INJECTOR_CONFIG, cfgOn, fs, held, orch, clPath, clOut>>

\* lines 340-351
ClassifyFile(t) ==
    /\ tasks[t].pc = "classify"
    /\ \E r \in {get_module_type(tasks[t].path, PackageList(cfgOn), Config(cfgOn),
                                 KindAt(fs, tasks[t].path))} :
           tasks' = [tasks EXCEPT ![t].classified = TRUE,
                                  ![t].module_type = r[1],
                                  ![t].error_message = IF r[1] = "SKIPPED" THEN SkippedMessage ELSE None,
                                  ![t].pc = IF r[1] = "SKIPPED" THEN "release" ELSE "process"]
    /\ UNCHANGED <<POST_INJECTOR_CONFIG, cfgOn, fs, held, orch, clPath, clOut>>

\* lines 352-412
Process(t) ==
    /\ tasks[t].pc = "process"
    /\ \E r \in {ProcessFile(fs, Config(cfgOn), tasks[t].path, tasks[t].partition_name,
                              tasks[t].module_type, ch) : ch \in Choices} :
              /\ fs' = r.fs
              /\ tasks' = [tasks EXCEPT ![t].pc = "release",
                                        ![t].file_path = r.file_path,
                                        ![t].error_message = r.error_message,
                                        ![t].inj_obj = r.inj_obj,
                                        ![t].inj_partition = r.inj_partition,
                                        ![t].exc = r.raised,
                                        ![t].exited = r.exited,
                                        ![t].stage_failed = r.stage_failed,
                                        ![t].ran = r.ran,
                                        ![t].wrote = r.wrote]
    /\ UNCHANGED <<POST_INJECTOR_CONFIG, cfgOn, held, orch, clPath, clOut>>

\* the end of the with block of line 337: the lock is released on every way
\* out; `except Exception` (line 413) takes an Exception and lets SystemExit by
Release(t) ==
    /\ tasks[t].pc = "release"
    /\ held' = held \ {t}
    /\ tasks' = [tasks EXCEPT ![t].pc = IF tasks[t].exc /\ ~tasks[t].exited THEN "except"
                                        ELSE "finally"]
    /\ UNCHANGED <<POST_INJECTOR_CONFIG, cfgOn, fs, orch, clPath, clOut>>

\* lines 413-414
Except(t) ==
    /\ tasks[t].pc = "except"
    /\ tasks' = [tasks EXCEPT ![t].pc = "finally", ![t].error_message = ExceptionMessage]
    /\ UNCHANGED <<POST_INJECTOR_CONFIG, cfgOn, fs, held, orch, clPath, clOut>>

\* Finally with the marker written only after an attempt without error
Finally_onSuccess(t) ==
    /\ tasks[t].pc = "finally"
    /\ fs' = IF tasks[t].error_message = None
             THEN Put(fs, MarkerPath(tasks[t].path), EmptyFile) ELSE fs
    /\ tasks' = [tasks EXCEPT ![t].pc = "done",
                              ![t].result = IF tasks[t].sawMarker = "locked" THEN tasks[t].result
                                            ELSE <<tasks[t].error_message, tasks[t].inj_obj,
                                                   tasks[t].inj_partition>>]
    /\ UNCHANGED <<POST_INJECTOR_CONFIG, cfgOn, held, orch, clPath, clOut>>

\* lines 415-422
Finally(t) ==
    /\ tasks[t].pc = "finally"
    /\ fs' = Put(fs, MarkerPath(tasks[t].path), EmptyFile)
    /\ tasks' = [tasks EXCEPT ![t].pc = "done",
                              ![t].result = IF tasks[t].sawMarker = "locked" THEN tasks[t].result
                                            ELSE <<tasks[t].error_message, tasks[t].inj_obj,
                                                   tasks[t].inj_partition>>]
    /\ UNCHANGED <<POST_INJECTOR_CONFIG, cfgOn, held, orch, clPath, clOut>>


\* ---------------------------------------------------------------------------
\* process_partitions (301-320) and process_partition_files (610-668)
\* ---------------------------------------------------------------------------
Range(seq) == {seq[i] : i \in DOMAIN seq}

\* str.strip() on a file name
RECURSIVE strip(_)
strip(name) ==
    IF name # <<>> /\ Last(name) = " " THEN strip(Front(name))
    ELSE IF name # <<>> /\ Head(name) = " " THEN strip(Tail(name))
    ELSE name

\* get_folders (291-298): the directories directly below the source folder
get_folders(f) == {<<AF, q[2]>> : q \in {x \in DOMAIN f : Len(x) >= 3 /\ x[1] = AF}}

\* scandir_walk (671-690) as line 621 consumes it: os.path.join(root,
\* file_name.strip()) for every entry that is not a directory
WalkEntries(f, folder_path) ==
    LET files == SetToSeq(get_all_files(f, folder_path))
    IN  [i \in DOMAIN files |-> Front(files[i]) \o <<strip(basename(files[i]))>>]

\* the loop of lines 629-638 over file_paths from position i on
RECURSIVE SubmitLoop(_, _, _)
SubmitLoop(file_paths, i, processed_files) ==
    IF i > Len(file_paths) THEN <<>>
    ELSE IF file_paths[i] \in processed_files
         THEN SubmitLoop(file_paths, i + 1, processed_files)
         ELSE <<file_paths[i]>> \o SubmitLoop(file_paths, i + 1, processed_files \cup {file_paths[i]})

\* every entry of the walk submitted as it comes
SubmittedPaths_asWalked(entries) == entries

\* lines 621-638: the paths handed to executor.submit, given the entries the
\* walk yields
SubmittedPaths(entries) == SubmitLoop(SetToSeq(Range(entries)), 1, {})

NoOrch ==
    [phase |-> "external", runs |-> 0, run |-> 0, folders |-> <<>>, folder |-> None, futures |-> {},
     error_list |-> <<>>, inj_obj_list |-> <<>>, inj_partition_list |-> <<>>,
     combined_error_list |-> <<>>, combined_inj_obj_list |-> <<>>,
     combined_inj_partition_list |-> <<>>, snapshot |-> <<>>]

\* lines 302-306
ProcessPartitions ==
    /\ orch.phase \in {"idle", "returned"}
    /\ orch.run < orch.runs
    /\ orch' = [NoOrch EXCEPT !.phase = "partitions", !.run = orch.run + 1,
                              !.folders = SetToSeq(get_folders(fs)),
                              !.runs = orch.runs, !.snapshot = orch.snapshot]
    /\ tasks' = <<>>      \* the futures of an earlier run are gone with its frame
    /\ UNCHANGED <<POST_INJECTOR_CONFIG, cfgOn, fs, held, clPath, clOut>>

\* lines 308 and 617-638: the next partition folder is walked and its files
\* are submitted
SubmitPartition ==
    /\ orch.phase = "partitions"
    /\ orch.folders # <<>>
    /\ LET folder_path == Head(orch.folders)
           partition_name == basename(folder_path)[1]
           submitted == SubmittedPaths(WalkEntries(fs, folder_path))
           n == Len(tasks)
       IN  /\ tasks' = tasks \o [i \in DOMAIN submitted |-> NewTask(submitted[i], partition_name)]
           /\ orch' = [orch EXCEPT !.phase = "collect", !.folder = folder_path,
                                   !.folders = Tail(orch.folders),
                                   !.futures = {n + i : i \in DOMAIN submitted},
                                   !.error_list = <<>>, !.inj_obj_list = <<>>,
                                   !.inj_partition_list = <<>>]
    /\ UNCHANGED <<POST_INJECTOR_CONFIG, cfgOn, fs, held, clPath, clOut>>

\* lines 643-662: as_completed hands over the calls in the order they end.
\* future.result() (line 649) raises what the call raised; the SystemExit of
\* an exited call passes `except Exception` (line 656) and leaves the function
\* after the finally block, so that neither line 666 nor the summary is reached.
Collect(t) ==
    /\ orch.phase = "collect"
    /\ t \in orch.futures
    /\ tasks[t].pc = "done"
    /\ LET result == tasks[t].result
       IN  orch' = IF tasks[t].exited
               THEN [orch EXCEPT !.phase = "aborted", !.futures = orch.futures \ {t}]
               ELSE [orch EXCEPT
                !.futures = orch.futures \ {t},
                !.error_list = IF result[1] # None THEN Append(orch.error_list, result[1])
                               ELSE orch.error_list,
                !.inj_obj_list = IF result[2] # None THEN Append(orch.inj_obj_list, result[2])
                                 ELSE orch.inj_obj_list,
                !.inj_partition_list = IF result[3] # None
                                       THEN Append(orch.inj_partition_list, result[3])
                                       ELSE orch.inj_partition_list]
    /\ UNCHANGED <<POST_INJECTOR_CONFIG, cfgOn, fs, held, tasks, clPath, clOut>>

\* cleanup_files that removes the lock files only
cleanup_files_locks(f, directory) ==
    [q \in {x \in DOMAIN f : ~(IsPrefix(directory, x) /\ Last(basename(x)) = ".fmd-aecs-lock")}
        |-> f[q]]

\* cleanup_files (592-607)
cleanup_files(f, directory) ==
    [q \in {x \in DOMAIN f : ~(IsPrefix(directory, x)
                                /\ Last(basename(x)) \in {".fmd-aecs-lock", ".fmd-aecs-processed"})}
        |-> f[q]]

\* lines 660-664 and 318-320
FinishPartition ==
    /\ orch.phase = "collect"
    /\ orch.futures = {}
    /\ fs' = cleanup_files(fs, orch.folder)
    /\ orch' = [orch EXCEPT
            !.phase = "partitions",
            !.combined_error_list = orch.combined_error_list \o orch.error_list,
            !.combined_inj_obj_list = orch.combined_inj_obj_list \o orch.inj_obj_list,
            !.combined_inj_partition_list =
                orch.combined_inj_partition_list \o orch.inj_partition_list]
    /\ UNCHANGED <<POST_INJECTOR_CONFIG, cfgOn, held, tasks, clPath, clOut>>

\* line 322; snapshot remembers the build tree a run leaves behind
Return ==
    /\ orch.phase = "partitions"
    /\ orch.folders = <<>>
    /\ orch' = [orch EXCEPT !.phase = "returned",
                            !.snapshot = Append(orch.snapshot, TreeOf(fs))]
    /\ UNCHANGED <<POST_INJECTOR_CONFIG, cfgOn, fs, held, tasks, clPath, clOut>>

\* ---------------------------------------------------------------------------
\* Initial states: a rule set, the files of the source folder and the build
\* tree the build left behind
\* ---------------------------------------------------------------------------
vars == <<POST_INJECTOR_CONFIG, cfgOn, fs, held, tasks, orch, clPath, clOut>>
NoPath == <<>>
NoResult == <<"", "">>

\* the rule sets the runs are checked under
RunConfigs ==
    {{},
     {"ENABLE_SHARED_LIBRARIES_INJECTION_IF_NOT_EXISTS"},
     {"SKIPPED_KEYWORD_LIST"},
     {"SKIPPED_FILE_EXTENSION_LIST_INDIRECT_INJECTION"},
     {"ALLOW_APEX_INJECTION_MERGE", "ALLOW_APEX_MERGE_KEYWORD_LIST"},
     {"APEX_BINARY_ISOLATED_NAMESPACE_LIST", "USE_ISOLATED_NAMESPACE"}}

\* the source folder holds up to MaxFiles neighbouring artifacts of the catalogue
Scenes == {a..b : a \in Artifacts, b \in Artifacts} \ {{}}
SmallScenes == {S \in Scenes : Cardinality(S) <= MaxFiles}

PartitionOf(file_path) == file_path[2][1]
SourceContent(a) == [kind |-> Catalogue[a].kind, org |-> SrcPath(a), form |-> "raw"]
BuiltContent(a) == [kind |-> Catalogue[a].kind, org |-> Build, form |-> "built"]
Sources(present) == [q \in {SrcPath(a) : a \in present} |->
                        SourceContent(CHOOSE a \in present : SrcPath(a) = q)]

\* where the build put its own copy of an artifact, and the intermediate of it
\* below obj
TargetOf(on, a) ==
    get_target_injection_path(Sources({a}), Config(on), SrcPath(a), PartitionOf(SrcPath(a)))
ObjOf(a) ==
    <<OUT, <<"obj">>, <<BaseModuleType(SrcPath(a), Catalogue[a].kind)>>,
      splitext(basename(SrcPath(a)))[1] \o <<"_intermediates">>, basename(SrcPath(a))>>

\* built is "none" (an empty build tree), "targets" (the build produced every
\* artifact itself) or "full" (and kept the intermediates); "twin" is "none"
\* with a second directory entry for the first artifact
InitialFs(on, present, built) ==
    LET targets == IF built = "none" THEN {} ELSE {TargetOf(on, a) : a \in present}
        objs == IF built = "full" THEN {ObjOf(a) : a \in present} ELSE {}
        dom == {SrcPath(a) : a \in present} \cup targets \cup objs \cup {BuildImagePy}
    IN  [q \in dom |->
            IF q \in {SrcPath(a) : a \in present}
            THEN SourceContent(CHOOSE a \in present : SrcPath(a) = q)
            ELSE IF q = BuildImagePy THEN [kind |-> "data", org |-> Build, form |-> "built"]
            ELSE BuiltContent(CHOOSE a \in present : q \in {TargetOf(on, a), ObjOf(a)})]

\* a file whose name differs from an artifact's by trailing white space
Twin(file_path) == Front(file_path) \o <<basename(file_path) \o <<" ">>>>
WithTwin(f, file_path) == Put(f, Twin(file_path), [f[file_path] EXCEPT !.org = Twin(file_path)])

Init ==
    /\ cfgOn \in RunConfigs
    /\ \E present \in SmallScenes, built \in {"none", "targets", "full", "twin"} :
          LET a == CHOOSE x \in present : \A y \in present : x <= y
          IN  fs = IF built = "twin" THEN WithTwin(InitialFs(cfgOn, present, "none"), SrcPath(a))
                   ELSE InitialFs(cfgOn, present, built)
    /\ held = {}
    /\ tasks = <<>>
    /\ orch = [NoOrch EXCEPT !.phase = "idle", !.runs = 1]
    /\ clPath = NoPath
    /\ clOut = NoResult
    /\ POST_INJECTOR_CONFIG = None

Next ==
    \/ ProcessPartitions
    \/ SubmitPartition
    \/ \E t \in DOMAIN tasks : Collect(t)
    \/ FinishPartition
    \/ Return
    \/ \E t \in DOMAIN tasks : Enter(t)
    \/ \E t \in DOMAIN tasks : Acquire(t)
    \/ \E t \in DOMAIN tasks : Recheck(t)
    \/ \E t \in DOMAIN tasks : ClassifyFile(t)
    \/ \E t \in DOMAIN tasks : Process(t)
    \/ \E t \in DOMAIN tasks : Release(t)
    \/ \E t \in DOMAIN tasks : Except(t)
    \/ \E t \in DOMAIN tasks : Finally(t)

Spec == Init /\ [][Next]_vars

\* the steps that start no walk and no tool: the orchestrator's own and the
\* lock, marker and bookkeeping steps of a call
Scheduled ==
    \/ ProcessPartitions
    \/ FinishPartition
    \/ Return
    \/ \E t \in DOMAIN tasks : Collect(t) \/ Enter(t) \/ Acquire(t) \/ Recheck(t) \/ Release(t) \/ Except(t) \/ Finally(t)

\* the steps that walk a folder or run tools (lines 617-638, 353, 355), and
\* the states in which one of them is due
Worked ==
    \/ SubmitPartition
    \/ \E t \in DOMAIN tasks : ClassifyFile(t) \/ Process(t)

Working ==
    \/ orch.phase = "partitions" /\ orch.folders # <<>>
    \/ \E t \in DOMAIN tasks : tasks[t].pc \in {"classify", "process"}

\* the same run with every process scheduled (the executor of line 630 runs
\* every submitted call, as_completed hands over every ended one) and every
\* walk and tool call returning: weak fairness of the light steps, and of the
\* heavy ones with their enabling condition written out
SpecLive == Init /\ [][Next]_vars /\ WF_vars(Scheduled) /\ ([]<>(~Working) \/ []<><<Worked>>_vars)

\* ---------------------------------------------------------------------------
\* process_partitions called MaxRuns times in a row on a source folder that
\* holds one artifact and that nobody touches between the runs
\* ---------------------------------------------------------------------------
InitRerun ==
    /\ cfgOn \in RunConfigs
    /\ \E a \in Artifacts, built \in {"none", "targets", "full"} :
          fs = InitialFs(cfgOn, {a}, built)
    /\ held = {}
    /\ tasks = <<>>
    /\ orch = [NoOrch EXCEPT !.phase = "idle", !.runs = MaxRuns]
    /\ clPath = NoPath
    /\ clOut = NoResult
    /\ POST_INJECTOR_CONFIG = None

SpecRerun == InitRerun /\ [][Next]_vars

\* ---------------------------------------------------------------------------
\* A run started on a source folder that an earlier run left without reaching
\* cleanup_files (line 666): next to the artifact lies its lock file, and its
\* marker if the earlier call got as far as line 416
\* ---------------------------------------------------------------------------
InitResume ==
    /\ cfgOn \in RunConfigs
    /\ \E a \in Artifacts, built \in {"none", "targets", "full"}, marked \in BOOLEAN :
          LET f == Put(InitialFs(cfgOn, {a}, built), LockPath(SrcPath(a)), EmptyFile)
          IN  fs = IF marked THEN Put(f, MarkerPath(SrcPath(a)), EmptyFile) ELSE f
    /\ held = {}
    /\ tasks = <<>>
    /\ orch = [NoOrch EXCEPT !.phase = "idle", !.runs = 1]
    /\ clPath = NoPath
    /\ clOut = NoResult
    /\ POST_INJECTOR_CONFIG = None

SpecResume == InitResume /\ [][Next]_vars

\* ---------------------------------------------------------------------------
\* Direct callers: NumCallers processes call process_file_concurrently on the
\* same path at the same time, with no orchestrator in between
\* ---------------------------------------------------------------------------
InitCall ==
    /\ cfgOn \in RunConfigs
    /\ \E a \in Artifacts, built \in {"none", "targets", "full"} :
          /\ fs = InitialFs(cfgOn, {a}, built)
          /\ tasks = [i \in 1..NumCallers |-> NewTask(SrcPath(a), PartitionOf(SrcPath(a)))]
    /\ held = {}
    /\ orch = NoOrch
    /\ clPath = NoPath
    /\ clOut = NoResult
    /\ POST_INJECTOR_CONFIG = None

NextCall ==
    \/ \E t \in DOMAIN tasks : Enter(t)
    \/ \E t \in DOMAIN tasks : Acquire(t)
    \/ \E t \in DOMAIN tasks : Recheck(t)
    \/ \E t \in DOMAIN tasks : ClassifyFile(t)
    \/ \E t \in DOMAIN tasks : Process(t)
    \/ \E t \in DOMAIN tasks : Release(t)
    \/ \E t \in DOMAIN tasks : Except(t)
    \/ \E t \in DOMAIN tasks : Finally(t)

SpecCall == InitCall /\ [][NextCall]_vars

\* ---------------------------------------------------------------------------
\* Classifier harness: get_module_type applied to every artifact under every
\* rule set with at most MaxRules options switched on
\* ---------------------------------------------------------------------------
InitClassify ==
    /\ cfgOn \in SubsetsUpTo(ClassifierOptions, MaxRules)
    /\ fs = Sources(Artifacts)
    /\ held = {}
    /\ tasks = <<>>
    /\ orch = NoOrch
    /\ clPath = NoPath
    /\ clOut = NoResult
    /\ POST_INJECTOR_CONFIG = None

\* one call; the rules are read from the module global that lines 67-68 set
Classify(a) ==
    /\ clPath' = SrcPath(a)
    /\ POST_INJECTOR_CONFIG' = SetConfig(POST_INJECTOR_CONFIG, Config(cfgOn))
    /\ clOut' = get_module_type(SrcPath(a), PackageList(cfgOn), POST_INJECTOR_CONFIG',
                                KindAt(fs, SrcPath(a)))
    /\ UNCHANGED <<cfgOn, fs, held, tasks, orch>>

NextClassify == \E a \in Artifacts : Classify(a)

SpecClassify == InitClassify /\ [][NextClassify]_vars

\* ---------------------------------------------------------------------------
\* The same process calling get_module_type again and again, each call with a
\* path and a rule set of its own (no option or one option switched on)
\* ---------------------------------------------------------------------------
Recall(a, on, pre_injector_package_list) ==
    /\ cfgOn' = on
    /\ clPath' = SrcPath(a)
    /\ POST_INJECTOR_CONFIG' = SetConfig(POST_INJECTOR_CONFIG, Config(on))
    /\ clOut' = get_module_type(SrcPath(a), pre_injector_package_list,
                                POST_INJECTOR_CONFIG', KindAt(fs, SrcPath(a)))
    /\ UNCHANGED <<fs, held, tasks, orch>>

\* the first call of a process: no option set yet in the configuration module
InitRecall ==
    InitClassify /\ cfgOn = {}

\* every call hands over the list of the pre-injector
SpecRecall ==
    InitRecall
        /\ [][\E a \in Artifacts, on \in {{}} \cup {{option} : option \in ClassifierOptions} :
                  Recall(a, on, PackageList(on))]_vars

\* a call may leave pre_injector_package_list at its default
SpecRecallDefault ==
    InitRecall
        /\ [][\E a \in Artifacts, on \in {{}} \cup {{option} : option \in ClassifierOptions} :
                  \E pre_injector_package_list \in {NoList, PackageList(on)} :
                      Recall(a, on, pre_injector_package_list)]_vars

\* ---------------------------------------------------------------------------
\* Matcher harness: search_original_file_in_obj applied, for every module
\* type, to a source file of either word size and an object cache that holds
\* up to two files of its name
\* ---------------------------------------------------------------------------
ModuleTypes ==
    {"EXECUTABLES", "JAVA_LIBRARIES", "SHARED_LIBRARIES", "APPS", "STATIC_CONFIG", "ETC", "MISC"}

InitMatch ==
    /\ cfgOn \in {{}, {"ALLOW_APEX_INJECTION_MERGE"}}
    /\ \E a \in Artifacts, T \in ModuleTypes, k \in {"elf32", "elf64"},
          k1 \in {"elf32", "elf64", "data", "unreadable"},
          k2 \in {"elf32", "elf64", "data", "unreadable", "absent"} :
          LET file_name == basename(SrcPath(a))
              source == [kind |-> k, org |-> SrcPath(a), form |-> "raw"]
              built(kind) == [kind |-> kind, org |-> Build, form |-> "built"]
              \* where the build keeps files of this name below obj/<module type>
              folder == <<OUT, <<"obj">>, <<T>>, splitext(file_name)[1] \o <<"_intermediates">>>>
              first == folder \o <<file_name>>
              second == folder \o <<<<"stripped">>, file_name>>
              f1 == Put(Put(<<>>, SrcPath(a), source), first, built(k1))
          IN  /\ fs = IF k2 = "absent" THEN f1 ELSE Put(f1, second, built(k2))
              /\ clPath = SrcPath(a)
    /\ held = {}
    /\ tasks = <<>>
    /\ orch = NoOrch
    /\ clOut = NoResult
    /\ POST_INJECTOR_CONFIG = None

\* one call of the matcher as line 504 makes it
Match(module_type) ==
    /\ clOut' = <<module_type,
                  search_original_file_in_obj(fs, Config(cfgOn), PartitionOf(clPath), module_type,
                                              clPath, basename(clPath))>>
    /\ UNCHANGED <<POST_INJECTOR_CONFIG, cfgOn, fs, held, tasks, orch, clPath>>

SpecMatch == InitMatch /\ [][\E module_type \in ModuleTypes : Match(module_type)]_vars

\* ---------------------------------------------------------------------------
\* Matcher harness for the asymmetry rules: the object cache holds one file for
\* the source, under the source's name or another name of its extension, in
\* the folder of its module, below a directory of the NDK, of the VNDK, of a
\* com.android module, or below none
\* ---------------------------------------------------------------------------
InitNamespace ==
    /\ cfgOn \in {{}, {"ALLOW_APEX_INJECTION_MERGE"}}
    /\ \E a \in Artifacts, T \in ModuleTypes,
          above \in {<<>>, <<"vndk">>, <<"ndk">>, <<"com.android.", "art">>},
          named \in {"same", "other", "namespaced"} :
          LET file_name == basename(SrcPath(a))
              ext == IF splitext(file_name)[2] = "" THEN <<>> ELSE <<splitext(file_name)[2]>>
              tag == IF PartitionOf(SrcPath(a)) = "vendor" THEN <<"_vendor">> ELSE <<>>
              folder == <<OUT, <<"obj">>, <<T>>>> \o (IF above = <<>> THEN <<>> ELSE <<above>>)
                            \o <<splitext(file_name)[1] \o tag \o <<"_intermediates">>>>
              candidate_file_name ==
                  CASE named = "same" -> file_name
                    [] named = "other" -> <<"package">> \o ext
                    [] OTHER -> <<"com.android.", "package">> \o ext
          IN  /\ fs = Put(Put(<<>>, SrcPath(a), SourceContent(a)),
                          folder \o <<candidate_file_name>>, BuiltContent(a))
              /\ clPath = SrcPath(a)
    /\ held = {}
    /\ tasks = <<>>
    /\ orch = NoOrch
    /\ clOut = NoResult
    /\ POST_INJECTOR_CONFIG = None

SpecNamespace == InitNamespace /\ [][\E module_type \in ModuleTypes : Match(module_type)]_vars

\* ---------------------------------------------------------------------------
\* Compatibility harness: check_file_compatibility applied, for every module
\* type, to a source file below a directory named arm or arm64, below one
\* whose name or whose parent's name holds the text arm, or below lib64, and
\* to a candidate below a directory of either architecture or of neither.
\* clPath is <<file_path, candidate_path>>, clOut <<module_type, is_match>>.
\* ---------------------------------------------------------------------------
InitArm ==
    /\ cfgOn = {}
    /\ \E above \in {<<<<"framework">>, <<"arm">>>>, <<<<"framework">>, <<"arm64">>>>,
                      <<<<"framework">>, <<"arm64">>, <<"oat">>>>, <<<<"app">>, <<"al", "arm">>>>,
                      <<<<"lib", "64">>>>},
          file_name \in {N_so, <<"lib", "arm", "foo", ".so">>},
          parent_dir_candidate \in {<<"arm">>, <<"arm64">>, <<"arm64", "_armv8-a">>,
                                    <<"lib", "foo", "_intermediates">>},
          k \in {"elf64", "data"}, k1 \in {"elf64", "elf32", "data"} :
          LET file_path == <<AF, SYS>> \o above \o <<file_name>>
              candidate_path == <<OUT, <<"obj">>, <<"SHARED_LIBRARIES">>, parent_dir_candidate, file_name>>
          IN  /\ fs = Put(Put(<<>>, file_path, [kind |-> k, org |-> file_path, form |-> "raw"]),
                          candidate_path, [kind |-> k1, org |-> Build, form |-> "built"])
              /\ clPath = <<file_path, candidate_path>>
    /\ held = {}
    /\ tasks = <<>>
    /\ orch = NoOrch
    /\ clOut = NoResult
    /\ POST_INJECTOR_CONFIG = None

\* one call of check_file_compatibility as lines 806 and 836 make it
CheckFileCompatibility(module_type) ==
    /\ clOut' = <<module_type, check_file_compatibility(fs, clPath[1], clPath[2], module_type)>>
    /\ UNCHANGED <<POST_INJECTOR_CONFIG, cfgOn, fs, held, tasks, orch, clPath>>

SpecArm == InitArm /\ [][\E module_type \in ModuleTypes : CheckFileCompatibility(module_type)]_vars

\* ---------------------------------------------------------------------------
\* Overwrite harness: inject_file_into_obj applied to an artifact, with the
\* module type get_module_type gives it, and a candidate that lies below a
\* directory named apex or below none.  clPath is <<source, candidate>>,
\* clOut <<module_type, is_injected, the files written>>.
\* ---------------------------------------------------------------------------
InitOverwrite ==
    /\ cfgOn \in {{}, {"APEX_BINARY_ISOLATED_NAMESPACE_LIST", "USE_ISOLATED_NAMESPACE"}}
    /\ \E a \in Artifacts, below \in {<<>>, <<<<"apex">>>>, <<<<"apex">>, <<"com.android.", "art">>>>} :
          LET original_file_path ==
                  <<OUT, <<"obj">>, <<BaseModuleType(SrcPath(a), Catalogue[a].kind)>>>> \o below
                      \o <<splitext(basename(SrcPath(a)))[1] \o <<"_intermediates">>,
                           basename(SrcPath(a))>>
          IN  /\ fs = Put(Put(Put(<<>>, SrcPath(a), SourceContent(a)),
                              original_file_path, BuiltContent(a)),
                          BuildImagePy, [kind |-> "data", org |-> Build, form |-> "built"])
              /\ clPath = <<SrcPath(a), original_file_path>>
    /\ held = {}
    /\ tasks = <<>>
    /\ orch = NoOrch
    /\ clOut = NoResult
    /\ POST_INJECTOR_CONFIG = None

\* lines 340-342 and 522-529: the file is classified, then written over the
\* candidate
InjectIntoObj(ch) ==
    /\ Exists(fs, clPath[1])
    /\ \E module_type \in {get_module_type(clPath[1], PackageList(cfgOn), Config(cfgOn),
                                           KindAt(fs, clPath[1]))[1]} :
          \E r \in {inject_file_into_obj(fs, Config(cfgOn), clPath[1], clPath[2], module_type, ch)} :
              /\ fs' = r.fs
              /\ clOut' = <<module_type, r.is_injected, r.wrote>>
    /\ UNCHANGED <<POST_INJECTOR_CONFIG, cfgOn, held, tasks, orch, clPath>>

SpecOverwrite == InitOverwrite /\ [][\E ch \in Choices : InjectIntoObj(ch)]_vars

\* ---------------------------------------------------------------------------
\* shell_command.py: the two ways the tool chains start an external process.
\* A finished process is its return code and what it wrote to stderr.
\* ---------------------------------------------------------------------------
ExitCodes == {0, 1, 2, 127, 255}
StderrTexts ==
    {<<>>, <<"error">>, <<"Error">>, <<"ERROR", ": ", "no such file">>,
     <<"warning", ": ", "deprecated">>, <<"fatal", ": ", "bad magic">>,
     <<"I/O ", "Error">>, <<"signapk", ": ", "Exception">>, <<"terror">>, <<"Usage">>}

\* str.lower(), token by token
lower(text) ==
    [i \in DOMAIN text |->
        CASE text[i] \in {"Error", "ERROR"} -> "error"
          [] text[i] = "I/O " -> "i/o "
          [] text[i] = "Exception" -> "exception"
          [] text[i] = "Usage" -> "usage"
          [] OTHER -> text[i]]

\* lines 7-18; `"error" in text` is the substring test, "terror" holding "error"
execute_shell_command(returncode, log_err) ==
    LET HasError(text) == \E i \in DOMAIN text : text[i] \in {"error", "terror"}
    IN  returncode = 0 \/ ~HasError(lower(log_err))

\* lines 20-55; raised: subprocess.run raised instead of returning
execute_command(returncode, raised) ==
    IF raised THEN FALSE ELSE returncode = 0

InitShell ==
    /\ cfgOn = {}
    /\ fs = <<>>
    /\ held = {}
    /\ tasks = <<>>
    /\ orch = NoOrch
    /\ clPath = NoPath
    /\ clOut = NoResult
    /\ POST_INJECTOR_CONFIG = None

ExecuteShellCommand(returncode, log_err) ==
    /\ clPath' = <<"execute_shell_command", returncode, log_err, FALSE>>
    /\ clOut' = <<execute_shell_command(returncode, log_err)>>
    /\ UNCHANGED <<POST_INJECTOR_CONFIG, cfgOn, fs, held, tasks, orch>>

ExecuteCommand(returncode, log_err, raised) ==
    /\ clPath' = <<"execute_command", returncode, log_err, raised>>
    /\ clOut' = <<execute_command(returncode, raised)>>
    /\ UNCHANGED <<POST_INJECTOR_CONFIG, cfgOn, fs, held, tasks, orch>>

SpecShell ==
    InitShell /\ [][\/ \E returncode \in ExitCodes, log_err \in StderrTexts :
                         ExecuteShellCommand(returncode, log_err)
                    \/ \E returncode \in ExitCodes, log_err \in StderrTexts, raised \in BOOLEAN :
                         ExecuteCommand(returncode, log_err, raised)]_vars

\* ---------------------------------------------------------------------------
\* aosp_apex_injector.py: the two tool calls that are run again when their
\* first run is reported failed. A run of the tool is its return code, what it
\* wrote to stderr and whether it left its output file behind.
\* ---------------------------------------------------------------------------
ToolRuns == [returncode : {0, 1}, log_err : {<<>>, <<"error">>, <<"warning", ": ", "deprecated">>}, wrote : BOOLEAN]

\* lines 1390-1423; tool_found: deapexer lies at one of the two known places
\* (line 1408); runs: the runs of the tool the call made, in order
extract_apex_file(tool_found, first, second) ==
    IF ~tool_found THEN [runs |-> <<>>, is_success |-> FALSE]
    ELSE IF execute_shell_command(first.returncode, first.log_err)
    THEN [runs |-> <<first>>, is_success |-> TRUE]
    ELSE [runs |-> <<first, second>>,
          is_success |-> execute_shell_command(second.returncode, second.log_err)]

\* lines 565-605; the same for conv_apex_manifest (line 588)
convert_manifest_from_json(tool_found, first, second) ==
    IF ~tool_found THEN [runs |-> <<>>, is_success |-> FALSE]
    ELSE IF execute_shell_command(first.returncode, first.log_err)
    THEN [runs |-> <<first>>, is_success |-> TRUE]
    ELSE [runs |-> <<first, second>>,
          is_success |-> execute_shell_command(second.returncode, second.log_err)]

\* the callers of extract_apex_file (lines 149-150 and 173-174, 272-279,
\* 840-841) go on only when it returned success
ExtractApexFile(tool_found, first, second) ==
    LET r == extract_apex_file(tool_found, first, second)
    IN  /\ clPath' = <<"extract_apex_file", tool_found, first, second>>
        /\ clOut' = <<r.runs, r.is_success, ~r.is_success>>
        /\ UNCHANGED <<POST_INJECTOR_CONFIG, cfgOn, fs, held, tasks, orch>>

\* the callers of convert_manifest_from_json (lines 491-494, 805-809,
\* 1487-1490) drop what it returns and go by the output file: the operation
\* fails when no run left the file behind (the folder of the file is fresh)
ConvertManifestFromJson(tool_found, first, second) ==
    LET r == convert_manifest_from_json(tool_found, first, second)
    IN  /\ clPath' = <<"convert_manifest_from_json", tool_found, first, second>>
        /\ clOut' = <<r.runs, r.is_success, \A i \in DOMAIN r.runs : ~r.runs[i].wrote>>
        /\ UNCHANGED <<POST_INJECTOR_CONFIG, cfgOn, fs, held, tasks, orch>>

SpecRetry ==
    InitShell /\ [][\/ \E tool_found \in BOOLEAN, first \in ToolRuns, second \in ToolRuns :
                         ExtractApexFile(tool_found, first, second)
                    \/ \E tool_found \in BOOLEAN, first \in ToolRuns, second \in ToolRuns :
                         ConvertManifestFromJson(tool_found, first, second)]_vars

\* ---------------------------------------------------------------------------
\* Properties of process_file_concurrently, checked under SpecCall
\* ---------------------------------------------------------------------------
Count(b) == IF b THEN 1 ELSE 0
Outcomes(result) == Count(result[1] # None) + Count(result[2] # None) + Count(result[3] # None)
Returned(t) == tasks[t].pc = "done"
Acted(t) == t \in DOMAIN tasks' /\ tasks'[t] # tasks[t]
SamePath(t, u) == t # u /\ tasks[t].path = tasks[u].path

\* C1: every call that did not find the file marked processed returns a result
\* of which exactly one of error message, indirect record and direct record
\* is non-empty.
C1_ExactlyOneOutcome ==
    \A t \in DOMAIN tasks :
        Returned(t) /\ tasks[t].sawMarker = "" => Outcomes(tasks[t].result) = 1

\* C2: of the calls on one path at most one classifies the file; every other
\* one returns "File already processed" and runs no injection path.
C2_AtMostOnce ==
    \A t, u \in DOMAIN tasks :
        SamePath(t, u) => ~(tasks[t].classified /\ tasks[u].classified)

\* C3: between the start of classification and the recording of the outcome
\* (lines 340-417) a call holds the lock of its path, so at most one call per
\* path is in that interval.
InInterval(t) == tasks[t].pc \in {"classify", "process", "release", "except", "finally"}
C3_LockHeldThroughout ==
    /\ \A t \in DOMAIN tasks : InInterval(t) => t \in held
    /\ \A t, u \in DOMAIN tasks : SamePath(t, u) => ~(InInterval(t) /\ InInterval(u))

\* C4: a call whose file is classified SKIPPED runs no injection path, and no
\* step it takes changes the source file or the build output tree.
C4_SkippedTouchesNothing ==
    [][\A t \in DOMAIN tasks :
          Acted(t) /\ tasks'[t].module_type = "SKIPPED" =>
              /\ tasks'[t].ran = {} /\ tasks'[t].wrote = {}
              /\ tasks'[t].inj_obj = None /\ tasks'[t].inj_partition = None
              /\ TreeOf(fs') = TreeOf(fs)
              /\ Exists(fs, tasks[t].path) =>
                     Exists(fs', tasks[t].path) /\ fs'[tasks[t].path] = fs[tasks[t].path]]_vars

C4_Witness ==
    \E t \in DOMAIN tasks :
        /\ Returned(t) /\ tasks[t].module_type = "SKIPPED"
        /\ tasks[t].result = <<SkippedMessage, None, None>>
        /\ Exists(fs, MarkerPath(tasks[t].path))

\* C8: a call that finds the marker of its path on entry returns "File already
\* processed" in that step: it takes no lock, classifies nothing, changes no
\* file and yields no injection record.
C8_MarkerOnEntry ==
    [][\A t \in DOMAIN tasks :
          Acted(t) /\ tasks[t].pc = "queued" /\ Exists(fs, MarkerPath(tasks[t].path)) =>
              /\ tasks'[t].pc = "done"
              /\ tasks'[t].result = <<AlreadyProcessed, None, None>>
              /\ ~tasks'[t].classified /\ tasks'[t].ran = {}
              /\ fs' = fs /\ held' = held]_vars

C8_Witness ==
    \E t \in DOMAIN tasks :
        /\ Returned(t) /\ tasks[t].sawMarker = "entry" /\ ~tasks[t].classified
        /\ tasks[t].result = <<AlreadyProcessed, None, None>>
        /\ t \notin held

\* C9: a call that found no marker on entry returns with the marker of its
\* path on disk, whatever the attempt did, and it does not hold the lock when
\* it writes the marker.
C9_MarkerAtEnd ==
    [][\A t \in DOMAIN tasks :
          Acted(t) /\ tasks'[t].pc = "done" /\ tasks'[t].sawMarker # "entry" =>
              /\ Exists(fs', MarkerPath(tasks[t].path))
              /\ t \notin held /\ t \notin held']_vars

C9_Witness ==
    \E t \in DOMAIN tasks :
        /\ Returned(t) /\ tasks[t].exc
        /\ Exists(fs, MarkerPath(tasks[t].path))
        /\ t \notin held

\* ---------------------------------------------------------------------------
\* Properties of the orchestrator, checked under Spec and SpecRerun
\* ---------------------------------------------------------------------------
\* C10: within one call of process_partition_files no two submitted tasks have
\* the same path, although the walk may yield entries whose stripped paths
\* coincide.
C10_OneTaskPerPath ==
    \A t, u \in DOMAIN tasks : t # u => tasks[t].path # tasks[u].path

C10_Witness ==
    \E t \in DOMAIN tasks :
        /\ Exists(fs, tasks[t].path) /\ Exists(fs, Twin(tasks[t].path))
        /\ orch.phase = "collect" /\ t \in orch.futures

\* C7: a second call of process_partitions on the folder the first call left
\* behind leaves the build output tree as the first call left it and reports
\* no indirect and no direct injection record.
C7_SecondRunIdempotent ==
    orch.phase = "returned" /\ orch.run = 2 =>
        /\ TreeOf(fs) = orch.snapshot[1]
        /\ orch.combined_inj_obj_list = <<>>
        /\ orch.combined_inj_partition_list = <<>>

\* ---------------------------------------------------------------------------
\* Properties of get_module_type, checked under SpecClassify
\* ---------------------------------------------------------------------------
clCfg == Config(cfgOn)
clName == RuleFileName(clPath)
clExt == splitext(basename(clPath))[2]
clTentative == clOut[2]
clIsApex == clExt \in {".apex", ".capex"}

\* a deny rule of lines 100-155 matches the classified file
DenyFires ==
    \/ /\ clTentative = "APPS"
       /\ \/ \E keyword \in clCfg.SKIPPED_APP_KEYWORDLIST : Contains(clName, keyword)
          \/ clName \in clCfg.SKIPPED_APP_LIST
          \/ splitext(basename(clPath))[1] \in clCfg.SKIPPED_APP_LIST
    \/ clTentative \in {"EXECUTABLES", "ETC"} /\ clCfg.DISABLE_BINARY_INJECTION
    \/ \E keyword \in clCfg.SKIPPED_KEYWORD_LIST : PathContains(clPath, keyword)
    \/ /\ clExt # ""
       /\ \/ clCfg.ALLOW_ONLY_EXTENSION_LIST # {} /\ clExt \notin clCfg.ALLOW_ONLY_EXTENSION_LIST
          \/ clExt \in clCfg.SKIPPED_FILE_EXTENSION_LIST_GENERAL
    \/ clName \in clCfg.SKIPPED_BINARY_LIST
    \/ Last(clName) \in clCfg.SKIPPED_FILE_ENDING_LIST
    \/ /\ clTentative \in {"SHARED_LIBRARIES", "ETC", "APPS"}
       /\ \E package_name \in PackageList(cfgOn) :
             StrippedPackageName(package_name) \in {clName, splitext(basename(clPath))[1]}
    \/ /\ clCfg.ENABLE_SHARED_LIBRARIES_INJECTION_IF_NOT_EXISTS /\ clExt = ".so"
       /\ \/ clName \in clCfg.SKIPPED_SHARED_LIBRARIES_EVEN_IF_NOT_EXISTS_LIST
          \/ \E keyword \in clCfg.SKIPPED_KEYWORD_SHARED_LIBRARIES_EVEN_IF_NOT_EXISTS_LIST :
                Contains(clName, keyword)
    \/ clIsApex /\ \E keyword \in clCfg.SKIPPED_APEX_KEYWORD_LIST : Contains(clName, keyword)
    \/ clTentative = "APPS" /\ clCfg.DISALLOW_APP_INJECTION
    \/ clTentative = "JAVA_LIBRARIES" /\ clCfg.DISABLE_JAVA_LIBRARIES_INJECTION
    \/ clTentative = "MISC" /\ clCfg.DISABLE_MISC_INJECTION

\* an always-allow rule of lines 135-142 and 157-166 matches it
AlwaysAllowMatches ==
    \/ /\ clCfg.ENABLE_ALLOW_APEX_INJECT_ALWAYS_KEYWORD_NOT_IN_LIST /\ clIsApex
       /\ \A keyword \in clCfg.ALLOW_APEX_INJECT_ALWAYS_KEYWORD_NOT_IN_LIST :
             ~Contains(clName, keyword)
    \/ clIsApex /\ \E keyword \in clCfg.ALLOW_APEX_INJECT_ALWAYS_KEYWORD_LIST :
                       Contains(clName, keyword)
    \/ /\ clExt = ".apk"
       /\ \/ clName \in clCfg.ALLOW_APP_INJECT_ALWAYS
          \/ \E keyword \in clCfg.ALLOW_APP_INJECT_ALWAYS_KEYWORD_LIST : Contains(clName, keyword)
    \/ clName \in clCfg.ALLOW_FILE_INJECT_ALWAYS
    \/ \E keyword \in clCfg.ALLOW_FILE_INJECT_ALWAYS_KEYWORD_LIST : PathContains(clPath, keyword)

\* lines 124-130: the shared-library toggle puts the tentative type back
SharedLibraryRestored ==
    /\ clCfg.ENABLE_SHARED_LIBRARIES_INJECTION_IF_NOT_EXISTS /\ clExt = ".so"
    /\ clName \notin clCfg.SKIPPED_SHARED_LIBRARIES_EVEN_IF_NOT_EXISTS_LIST
    /\ \A keyword \in clCfg.SKIPPED_KEYWORD_SHARED_LIBRARIES_EVEN_IF_NOT_EXISTS_LIST :
          ~Contains(clName, keyword)

C6_AlwaysAllowWins ==
    /\ clPath # NoPath
    /\ \/ basename(clPath) \in clCfg.ALLOW_FILE_INJECT_ALWAYS
       \/ \E keyword \in clCfg.ALLOW_FILE_INJECT_ALWAYS_KEYWORD_LIST : PathContains(clPath, keyword)
    => clOut[1] = clOut[2] /\ clOut[1] # "SKIPPED"

\* ---------------------------------------------------------------------------
\* Properties of the injection strategy and of error handling
\* ---------------------------------------------------------------------------
\* C11: within one run no file is written by the injection attempts of two
\* different source files: the sets of files two tasks wrote are disjoint.
C11_NoSharedDestination ==
    \A t \in DOMAIN tasks : \A u \in DOMAIN tasks :
        t # u /\ tasks[t].path # tasks[u].path => tasks[t].wrote \cap tasks[u].wrote = {}

\* C12: a failure while one file is processed becomes an error entry of that
\* file only: the run is never abandoned, and every collected call that failed
\* has left its message in the error list of its partition.
Reported == Range(orch.error_list) \cup Range(orch.combined_error_list)
C12_FailureStaysWithItsFile ==
    LET Failed(t) == tasks[t].exc \/ tasks[t].exited \/ tasks[t].error_message # None
        Collected(t) == Returned(t) /\ orch.phase # "external" /\ t \notin orch.futures
    IN  /\ orch.phase # "aborted"
        /\ \A t \in DOMAIN tasks :
               Collected(t) /\ Failed(t) /\ tasks[t].sawMarker = "" =>
                   tasks[t].result[1] # None /\ tasks[t].result[1] \in Reported

\* C13: when a stage of a container merge failed, handle_apex_modules reports
\* failure (line 379 then raises) and the container at its original path has
\* the content of its backup copy.
C13_FailedMergeKeepsOriginal ==
    [][\A t \in DOMAIN tasks :
          (/\ Acted(t) /\ tasks[t].pc = "process"
           /\ "merge" \in tasks'[t].ran /\ tasks'[t].stage_failed
           /\ Exists(fs, tasks'[t].file_path)) =>
              /\ tasks'[t].exc
              /\ Exists(fs', tasks'[t].file_path) /\ Exists(fs', BackupPath(tasks'[t].file_path))
              /\ fs'[tasks'[t].file_path] = fs'[BackupPath(tasks'[t].file_path)]]_vars


\* C15: neither the message of a file classified SKIPPED nor the message of a
\* file found already processed is an entry of the run's error list.
C15_SkipsAreNoErrors ==
    SkippedMessage \notin Reported /\ AlreadyProcessed \notin Reported


\* C19: a file for which indirect injection found no original (neither the
\* override table nor the matcher nor the retry without vendor words gave one)
\* ends as an error of its call: it has no injection record, its attempt wrote
\* no file, and its call returns an error message and nothing else.
C19_UnmatchedIsAnError ==
    \A t \in DOMAIN tasks :
        tasks[t].inj_obj # None /\ tasks[t].inj_obj[2] = None =>
            /\ tasks[t].inj_partition = None
            /\ tasks[t].wrote = {}
            /\ Returned(t) => tasks[t].result[1] # None /\ tasks[t].result[2] = None

\* C20: when the computed target exists, search_and_inject falls back to direct
\* injection only after indirect injection found an original, and without the
\* fallback the file at the computed target path stays as it was.
C20_FallbackOnlyAfterFailedOverwrite ==
    [][\A t \in DOMAIN tasks :
          LET target == get_target_injection_path(fs', Config(cfgOn), tasks'[t].file_path,
                                                  tasks'[t].partition_name)
          IN  (/\ Acted(t) /\ tasks[t].pc = "process"
               /\ "indirect" \in tasks'[t].ran /\ Exists(fs, target)) =>
                  /\ "fallback" \in tasks'[t].ran =>
                         tasks'[t].inj_obj # None /\ tasks'[t].inj_obj[2] # None
                  /\ "fallback" \notin tasks'[t].ran =>
                         Exists(fs', target) /\ fs'[target] = fs[target]]_vars

\* ---------------------------------------------------------------------------
\* Properties of the matcher, checked under SpecMatch
\* ---------------------------------------------------------------------------
\* C14 as stated: for an ELF source and every module type, no returned
\* candidate has a word size other than the source's.
C14_SameWordSize ==
    clOut # NoResult /\ is_elf_binary(KindAt(fs, clPath)) =>
        \A q \in clOut[2] : check_binary_architecture(fs, q) = check_binary_architecture(fs, clPath)

\* C14 for the module types the ELF probe applies to: for an ELF source
\* matched as SHARED_LIBRARIES, EXECUTABLES or ETC, no returned candidate has a
\* word size other than the source's.
C14_SameWordSizeWhenProbed ==
    (/\ clOut # NoResult /\ is_elf_binary(KindAt(fs, clPath))
     /\ clOut[1] \in MODULE_TYPE_ABI_COMPATIBLE) =>
        \A q \in clOut[2] : check_binary_architecture(fs, q) = check_binary_architecture(fs, clPath)

\* a probed match that returned the candidate of the source's word size and
\* left out the one of the other word size
C14_Witness ==
    /\ clOut # NoResult /\ is_elf_binary(KindAt(fs, clPath))
    /\ clOut[1] \in MODULE_TYPE_ABI_COMPATIBLE
    /\ \E q \in clOut[2] : check_binary_architecture(fs, q) = check_binary_architecture(fs, clPath)
    /\ \E q \in DOMAIN fs :
           /\ InTree(q) /\ basename(q) = basename(clPath) /\ q \notin clOut[2]
           /\ is_elf_binary(KindAt(fs, q))
           /\ check_binary_architecture(fs, q) # check_binary_architecture(fs, clPath)

\* ---------------------------------------------------------------------------
\* Properties of shell_command.py, checked under SpecShell
\* ---------------------------------------------------------------------------
\* C16: an invocation is reported successful exactly when the process ended
\* with return code 0, whatever it wrote to stderr.
C16_SuccessIffExitZero ==
    clOut # NoResult => (clOut[1] <=> (~clPath[4] /\ clPath[2] = 0))

\* ---------------------------------------------------------------------------
\* Properties of get_module_type called repeatedly, checked under SpecRecall
\* ---------------------------------------------------------------------------
\* C17: every call returns what a first call with its path, content, rule set
\* and already-injected list returns, whatever calls were made before it.
C17_ResultIndependentOfHistory ==
    [][clOut' = get_module_type(clPath', PackageList(cfgOn'), Config(cfgOn'),
                                KindAt(fs', clPath'))]_vars

\* a call under a rule set that skips the shared library; the process started
\* with no option switched on, so the rule set came with this or an earlier call
C17_Witness ==
    /\ clOut[1] = "SKIPPED" /\ clOut[2] = "SHARED_LIBRARIES"
    /\ POST_INJECTOR_CONFIG = Config({"SKIPPED_KEYWORD_LIST"})
    /\ clPath = SrcPath(1)

\* C18: no call of get_module_type raises, with or without an already-injected
\* list, and an unreadable file without extension outside bin and etc is
\* tentatively MISC.
C18_NeverRaises ==
    clOut # NoResult =>
        /\ clOut[1] # "TypeError"
        /\ KindAt(fs, clPath) = "unreadable" /\ clPath = SrcPath(11) => clOut[2] = "MISC"

\* ---------------------------------------------------------------------------
\* Properties of the container transforms, checked under Spec
\* ---------------------------------------------------------------------------
\* C21: for a container file that is not SKIPPED, an injection strategy runs
\* only after the transform of the file (merge under the merge rule, repack
\* otherwise) ran and no stage of it failed, and every file the strategy wrote
\* holds the transformed content.
C21_TransformBeforeDecision ==
    [][\A t \in DOMAIN tasks :
          (/\ Acted(t) /\ tasks[t].pc = "process"
           /\ splitext(basename(tasks[t].path))[2] \in {".apex", ".capex"}
           /\ tasks'[t].ran \cap {"direct", "indirect", "fallback"} # {}) =>
              /\ tasks'[t].ran \cap {"merge", "repack"} # {}
              /\ "merge" \in tasks'[t].ran <=>
                     /\ Config(cfgOn).ALLOW_APEX_INJECTION_MERGE
                     /\ \E keyword \in Config(cfgOn).ALLOW_APEX_MERGE_KEYWORD_LIST :
                            Contains(basename(tasks[t].path), keyword)
              /\ ~tasks'[t].stage_failed
              /\ \A w \in tasks'[t].wrote \ {BuildImagePy} :
                     fs'[w].form \in {"merged", "repacked"}]_vars

\* C22: after every merge or repack of a container file that existed, first or
\* repeated, successful or failed, the backup <file>.original_apex exists, holds
\* the content the file had before the first operation and is never rewritten,
\* and the file itself exists and holds that content or what the tools made
\* of it.
C22_BackupIsPristine ==
    [][\A t \in DOMAIN tasks :
          (/\ Acted(t) /\ tasks[t].pc = "process"
           /\ tasks'[t].ran \cap {"merge", "repack"} # {}
           /\ Exists(fs, tasks[t].path)) =>
              LET file_path == tasks'[t].file_path
                  org_apex_file == BackupPath(tasks'[t].file_path)
              IN  /\ Exists(fs', org_apex_file)
                  /\ Exists(fs, org_apex_file) => fs'[org_apex_file] = fs[org_apex_file]
                  /\ ~Exists(fs, org_apex_file) /\ Exists(fs, file_path) =>
                         fs'[org_apex_file] = fs[file_path]
                  /\ Exists(fs', file_path)
                  /\ [fs'[file_path] EXCEPT !.form = fs'[org_apex_file].form] = fs'[org_apex_file]]_vars

\* ---------------------------------------------------------------------------
\* Properties of the matcher's exclusion rules, checked under SpecNamespace
\* ---------------------------------------------------------------------------
\* C23: no returned candidate has vndk or ndk in its path when the source path
\* has not, and none has com.android in its path when the source path has not,
\* whether its file name or its folder name matched.
C23_AsymmetryExclusions ==
    clOut # NoResult =>
        \A q \in clOut[2] :
            /\ PathContains(q, "vndk") => PathContains(clPath, "vndk")
            /\ HasNdk(q) => HasNdk(clPath)
            /\ PathContains(q, "com.android.") => PathContains(clPath, "com.android.")

\* ---------------------------------------------------------------------------
\* Properties of the lock and marker files, checked under Spec
\* ---------------------------------------------------------------------------
\* C24: a call whose file is classified SKIPPED never holds the lock of the
\* file, and the only file a step of it creates, changes or removes is the
\* marker of the file.
C24_SkippedTakesNoLock ==
    [][\A t \in DOMAIN tasks :
          Acted(t) /\ tasks'[t].module_type = "SKIPPED" =>
              /\ t \notin held /\ t \notin held'
              /\ \A q \in DOMAIN fs \cup DOMAIN fs' :
                     (Exists(fs, q) /\ Exists(fs', q) /\ fs'[q] = fs[q]) \/ q = MarkerPath(tasks[t].path)]_vars

\* C25: lock and marker files are removed only when every submitted call has
\* returned and been collected; when process_partition_files returns, no lock
\* and no marker file is left below the partition folder; and every call that
\* has not returned belongs to the partition that is being processed.
IsLockOrMarker(q) == Last(basename(q)) \in {".fmd-aecs-lock", ".fmd-aecs-processed"}
C26_ApexRouting ==
    (/\ clOut # NoResult /\ clOut[2]
     /\ \E i \in 2..(Len(clPath[2]) - 1) : clPath[2][i] = <<"apex">>) =>
        /\ fs[clPath[2]].form = "built"
        /\ clOut[3] = {IF clOut[1] = "JAVA_LIBRARIES"
                       THEN <<HostRoot, <<"system">>, <<"framework">>, basename(clPath[2])>>
                       ELSE IF clOut[1] = "EXECUTABLES"
                       THEN <<HostRoot, <<"bin">>, basename(clPath[2])>>
                       ELSE <<HostRoot, <<"etc">>, basename(clPath[2])>>}

\* ---------------------------------------------------------------------------
\* Termination, checked under SpecLive
\* ---------------------------------------------------------------------------
\* C27: a call never waits for a lock while it holds one; every submitted call
\* eventually returns; and every call of process_partition_files eventually
\* returns to process_partitions.
C27_EveryTaskCompletes ==
    /\ [](\A t \in held : tasks[t].pc # "acquire")
    /\ \A t \in 1..MaxFiles : [](t \in DOMAIN tasks => <>(t \in DOMAIN tasks /\ Returned(t)))
    /\ (orch.phase = "collect") ~> (orch.phase = "partitions")

\* ---------------------------------------------------------------------------
\* The retried tool calls, checked under SpecRetry
\* ---------------------------------------------------------------------------
\* C28: a call that found its tool ran it once when the first run ended with
\* return code 0 and twice when it did not, never more; it returns whether the
\* last run ended with return code 0; and when the second run did not, the
\* container operation fails.
C28_RetriedExactlyOnce ==
    (clPath # NoPath /\ clPath[2]) =>
        /\ Len(clOut[1]) = (IF clPath[3].returncode = 0 THEN 1 ELSE 2)
        /\ clOut[2] = (clOut[1][Len(clOut[1])].returncode = 0)
        /\ (Len(clOut[1]) = 2 /\ clOut[1][2].returncode # 0) => clOut[3]

\* ---------------------------------------------------------------------------
\* Lock and marker files in a resumed run, checked under SpecResume
\* ---------------------------------------------------------------------------
\* C29: no call is submitted for a lock or marker file; no lock or marker file
\* has a lock or marker file of its own; and every lock or marker file lies in
\* the source tree, none in the build output tree.
C29_LocksAreNoArtifacts ==
    /\ \A t \in DOMAIN tasks : ~IsLockOrMarker(tasks[t].path)
    /\ \A q \in DOMAIN fs : IsLockOrMarker(q) => ~IsLockOrMarker(Front(q) \o <<Front(basename(q))>>)
    /\ \A q \in DOMAIN fs : IsLockOrMarker(q) => q[1] = AF

\* ---------------------------------------------------------------------------
\* The arm/arm64 rule, checked under SpecArm
\* ---------------------------------------------------------------------------
\* C30: a candidate that the ELF probe does not reject is rejected only when
\* the source lies directly in a directory named arm and the candidate in one
\* named arm64, or the other way round.
C30_ArmRuleBetweenArchitecturesOnly ==
    (clOut # NoResult) =>
        LET file_path == clPath[1]
            candidate_path == clPath[2]
            probed == clOut[1] \in MODULE_TYPE_ABI_COMPATIBLE /\ is_elf_binary(KindAt(fs, file_path))
            probe_ok == /\ is_abi_compatible(fs, candidate_path, file_path)
                        /\ check_shared_object_architecture(fs, candidate_path)
                               = check_shared_object_architecture(fs, file_path)
        IN  (~clOut[2] /\ (probed => probe_ok)) =>
                \/ basename(dirname(file_path)) = <<"arm">> /\ basename(dirname(candidate_path)) = <<"arm64">>
                \/ basename(dirname(file_path)) = <<"arm64">> /\ basename(dirname(candidate_path)) = <<"arm">>

====
